---- MODULE Spec2Model ----
(***************************************************************************)
(* Vehicle search with progressive fallback (src/main.py).                 *)
(*                                                                         *)
(* Representation.                                                         *)
(*   - A Python str is a sequence of one-character strings; "" is <<>>.    *)
(*   - A JSON value of a vehicle record is a record [t, s, n] with tag     *)
(*     t \in {"absent", "null", "str", "num"}.                             *)
(*   - An Optional number (the converters' result) is [ok, val].           *)
(*   - A Python float is held in hundredths (fixed point, factor Scale);   *)
(*     Python ints (year, odometer) are plain integers.                    *)
(*   - None and "" are both falsy in every use the engine makes of a       *)
(*     range parameter, so an absent range parameter is <<>>.              *)
(***************************************************************************)
EXTENDS Integers, Sequences, FiniteSets, TLC

\* ------------------------------------------------------------------------
\* Python str primitives
\* ------------------------------------------------------------------------

\* float values are kept as integers in units of 1/Scale
Scale == 100

Digits == <<"0", "1", "2", "3", "4", "5", "6", "7", "8", "9">>

DigitVal == [c \in {Digits[i] : i \in 1..10} |-> CHOOSE i \in 0..9 : Digits[i + 1] = c]

IsDigit(c) == c \in DOMAIN DigitVal

\* whitespace characters known to str.strip() / str.split()
IsSpace(c) == c \in {" ", "\n", "\r", "\t"}

\* str.lower(): the upper-case and the lower-case letters, aligned
UpperLetters == <<"A", "B", "C", "D", "E", "F", "G", "H", "I", "J", "K", "L", "M",
                  "N", "O", "P", "Q", "R", "S", "T", "U", "V", "W", "X", "Y", "Z">>

LowerLetters == <<"a", "b", "c", "d", "e", "f", "g", "h", "i", "j", "k", "l", "m",
                  "n", "o", "p", "q", "r", "s", "t", "u", "v", "w", "x", "y", "z">>

ToLower == [c \in {UpperLetters[i] : i \in 1..26} |->
              LowerLetters[CHOOSE i \in 1..26 : UpperLetters[i] = c]]

Lower(s) == [i \in 1..Len(s) |-> IF s[i] \in DOMAIN ToLower THEN ToLower[s[i]] ELSE s[i]]

\* unidecode(): "e'" and "E'" stand for the accented letters e-acute, E-acute,
\* "nbsp" for the no-break space and "endash" for the en dash
Unaccent ==
    [c \in {"e'", "E'", "nbsp", "endash"} |->
        CASE c = "e'" -> "e" [] c = "E'" -> "E" [] c = "nbsp" -> " " [] OTHER -> "-"]

unidecode(s) == [i \in 1..Len(s) |-> IF s[i] \in DOMAIN Unaccent THEN Unaccent[s[i]] ELSE s[i]]

\* s.replace(c, "") for a one-character c
RemoveChar(s, c) == SelectSeq(s, LAMBDA x : x # c)

\* s.replace(c, d) for one-character c and d
ReplaceChar(s, c, d) == [i \in 1..Len(s) |-> IF s[i] = c THEN d ELSE s[i]]

StartsWith(s, p) == Len(p) <= Len(s) /\ SubSeq(s, 1, Len(p)) = p

RECURSIVE RemoveSub(_, _)
\* s.replace(p, "") for a non-empty p (leftmost, non-overlapping)
RemoveSub(s, p) ==
    IF s = <<>> THEN <<>>
    ELSE IF StartsWith(s, p) THEN RemoveSub(SubSeq(s, Len(p) + 1, Len(s)), p)
    ELSE <<Head(s)>> \o RemoveSub(Tail(s), p)

RECURSIVE LStrip(_)
LStrip(s) == IF s # <<>> /\ IsSpace(Head(s)) THEN LStrip(Tail(s)) ELSE s

RECURSIVE RStrip(_)
RStrip(s) == IF s # <<>> /\ IsSpace(s[Len(s)]) THEN RStrip(SubSeq(s, 1, Len(s) - 1)) ELSE s

\* str.strip()
Strip(s) == RStrip(LStrip(s))

\* a in b (Python substring test; "" is in every string)
IsSubstr(a, b) == \E i \in 0..(Len(b) - Len(a)) : SubSeq(b, i + 1, i + Len(a)) = a

RECURSIVE SplitOn(_, _)
\* s.split(c): the pieces between the occurrences of c, empty pieces kept
SplitOn(s, c) ==
    IF \A i \in 1..Len(s) : s[i] # c THEN <<s>>
    ELSE LET k == CHOOSE i \in 1..Len(s) : s[i] = c /\ \A j \in 1..(i - 1) : s[j] # c
         IN  <<SubSeq(s, 1, k - 1)>> \o SplitOn(SubSeq(s, k + 1, Len(s)), c)

RECURSIVE SplitWords(_)
\* s.split(): maximal runs of non-whitespace
SplitWords(s) ==
    LET t == LStrip(s)
    IN  IF t = <<>> THEN <<>>
        ELSE IF \A i \in 1..Len(t) : ~IsSpace(t[i]) THEN <<t>>
        ELSE LET k == CHOOSE i \in 1..Len(t) : IsSpace(t[i]) /\ \A j \in 1..(i - 1) : ~IsSpace(t[j])
             IN  <<SubSeq(t, 1, k - 1)>> \o SplitWords(SubSeq(t, k + 1, Len(t)))

RECURSIVE DigitsValue(_)
\* value of a non-empty digit string
DigitsValue(s) == IF s = <<>> THEN 0 ELSE 10 * DigitsValue(SubSeq(s, 1, Len(s) - 1)) + DigitVal[s[Len(s)]]

AllDigits(s) == \A i \in 1..Len(s) : IsDigit(s[i])

Nothing == [ok |-> FALSE, val |-> 0]

Some(n) == [ok |-> TRUE, val |-> n]

\* int(s) for a str: surrounding whitespace and one sign allowed, then digits;
\* anything else raises ValueError (ok = FALSE)
ParseInt(s) ==
    LET t == Strip(s)
        neg == t # <<>> /\ Head(t) = "-"
        u == IF t # <<>> /\ Head(t) \in {"-", "+"} THEN Tail(t) ELSE t
    IN  IF u # <<>> /\ AllDigits(u)
        THEN Some(IF neg THEN 0 - DigitsValue(u) ELSE DigitsValue(u))
        ELSE Nothing

\* float(s) for a str, in hundredths: digits with at most one point (digits on
\* at least one side of it); at most two fractional digits are represented
ParseFloat(s) ==
    LET t == Strip(s)
        neg == t # <<>> /\ Head(t) = "-"
        u == IF t # <<>> /\ Head(t) \in {"-", "+"} THEN Tail(t) ELSE t
        parts == SplitOn(u, ".")
        ip == parts[1]
        fp == IF Len(parts) = 2 THEN parts[2] ELSE <<>>
        fp2 == SubSeq(fp \o <<"0", "0">>, 1, 2)
        mag == DigitsValue(ip) * Scale + DigitsValue(fp2)
    IN  IF Len(parts) <= 2 /\ AllDigits(ip) /\ AllDigits(fp) /\ Len(ip) + Len(fp) > 0
        THEN Some(IF neg THEN 0 - mag ELSE mag)
        ELSE Nothing

RECURSIVE NatToStr(_)
NatToStr(n) == IF n < 10 THEN <<Digits[n + 1]>> ELSE NatToStr(n \div 10) \o <<Digits[(n % 10) + 1]>>

\* str(n) for an int
IntToStr(n) == IF n < 0 THEN <<"-">> \o NatToStr(0 - n) ELSE NatToStr(n)

\* str(x) for a non-negative float x held in hundredths: "2020.0", "1.5", "0.25"
FloatToStr(x) ==
    LET f == x % Scale
        frac == IF f % 10 = 0 THEN <<Digits[(f \div 10) + 1]>>
                ELSE <<Digits[(f \div 10) + 1], Digits[(f % 10) + 1]>>
    IN  NatToStr(x \div Scale) \o <<".">> \o frac

\* ------------------------------------------------------------------------
\* JSON values of a vehicle record
\* ------------------------------------------------------------------------

JAbsent == [t |-> "absent", s |-> <<>>, n |-> 0]

JNull == [t |-> "null", s |-> <<>>, n |-> 0]

JStr(s) == [t |-> "str", s |-> s, n |-> 0]

JNum(n) == [t |-> "num", s |-> <<>>, n |-> n]

\* Python truthiness of a value
Truthy(x) == (x.t = "str" /\ x.s # <<>>) \/ (x.t = "num" /\ x.n # 0)

\* str(x); str(None) is "None"
PyStr(x) ==
    CASE x.t = "str" -> x.s
      [] x.t = "num" -> IntToStr(x.n)
      [] OTHER -> <<"N", "o", "n", "e">>

\* v.get(key): None for a missing key
Get(v, key) == IF v[key].t = "absent" THEN JNull ELSE v[key]

\* v.get(key, ""): "" for a missing key, None for a null value
GetOrEmpty(v, key) == IF v[key].t = "absent" THEN JStr(<<>>) ELSE v[key]

\* ------------------------------------------------------------------------
\* VehicleSearchEngine: normalisation and converters
\* ------------------------------------------------------------------------

\* normalize_text that strips before it removes the hyphens and the spaces
normalize_text_stripFirst(text) ==
    IF text = <<>> THEN <<>>
    ELSE RemoveChar(RemoveChar(Strip(Lower(unidecode(text))), "-"), " ")

\* normalize_text(text) for a str
normalize_text(text) ==
    IF text = <<>> THEN <<>>
    ELSE Strip(RemoveChar(RemoveChar(Lower(unidecode(text)), "-"), " "))

RECURSIVE CollapseSpaces(_)
\* re.sub(r'\s+', ' ', s): every run of whitespace becomes one space
CollapseSpaces(s) ==
    IF s = <<>> THEN <<>>
    ELSE IF IsSpace(Head(s))
    THEN <<" ">> \o CollapseSpaces(LStrip(s))
    ELSE <<Head(s)>> \o CollapseSpaces(Tail(s))

\* normalizar_texto(texto) of xml_fetcher for a str: letters, digits and single
\* spaces are kept
normalizar_texto(texto) ==
    IF texto = <<>> THEN <<>>
    ELSE LET texto_norm == SelectSeq(Lower(unidecode(texto)),
                                     LAMBDA c : \/ c \in {LowerLetters[i] : i \in 1..26}
                                                \/ IsDigit(c)
                                                \/ IsSpace(c))
         IN  Strip(CollapseSpaces(texto_norm))

\* convert_price(v.get("preco")), a float (hundredths)
convert_price(x) ==
    IF ~Truthy(x) THEN Nothing
    ELSE IF x.t = "num" THEN Some(x.n * Scale)
    ELSE LET cleaned == Strip(RemoveChar(RemoveSub(RemoveChar(PyStr(x), ","), <<"R", "$">>), "."))
             f == ParseFloat(cleaned)
         IN  IF ~f.ok THEN Nothing
             ELSE IF Len(cleaned) > 2 THEN Some(f.val \div Scale)
             ELSE Some(f.val)

\* convert_year(v.get("ano")), an int
convert_year(x) ==
    IF ~Truthy(x) THEN Nothing
    ELSE ParseInt(RemoveChar(RemoveChar(RemoveChar(Strip(PyStr(x)), "\n"), "\r"), " "))

\* convert_km(v.get("km")), an int
convert_km(x) ==
    IF ~Truthy(x) THEN Nothing
    ELSE ParseInt(Strip(RemoveChar(RemoveChar(PyStr(x), "."), ",")))

\* convert_cc(v.get("cilindrada")), a float (hundredths)
convert_cc(x) ==
    IF ~Truthy(x) THEN Nothing
    ELSE IF x.t = "num" THEN Some(x.n * Scale)
    ELSE LET cleaned == Strip(RemoveChar(RemoveChar(ReplaceChar(PyStr(x), ",", "."), "L"), "l"))
             f == ParseFloat(cleaned)
         IN  IF ~f.ok THEN Nothing
             ELSE IF f.val < 10 * Scale THEN Some(f.val * 1000)
             ELSE f

RECURSIVE MaxOf(_)
MaxOf(xs) ==
    IF Len(xs) = 1 THEN xs[1]
    ELSE LET m == MaxOf(Tail(xs)) IN IF xs[1] >= m THEN xs[1] ELSE m

\* get_max_value_from_range_param(param_value): the str of the largest float of
\* a comma-separated list; the value itself when it has no comma, when an
\* alternative does not parse, or when no alternative is left
get_max_value_from_range_param(param_value) ==
    IF param_value = <<>> THEN param_value
    ELSE IF \E i \in 1..Len(param_value) : param_value[i] = ","
    THEN LET pieces == SelectSeq(SplitOn(param_value, ","), LAMBDA p : Strip(p) # <<>>)
             parsed == [i \in 1..Len(pieces) |-> ParseFloat(Strip(pieces[i]))]
         IN  IF Len(pieces) > 0 /\ \A i \in 1..Len(pieces) : parsed[i].ok
             THEN FloatToStr(MaxOf([i \in 1..Len(pieces) |-> parsed[i].val]))
             ELSE param_value
    ELSE param_value

\* split_multi_value that keeps the first alternative only
split_multi_value_firstOnly(value) ==
    IF value = <<>> THEN <<>>
    ELSE SelectSeq(<<Strip(SplitOn(value, ",")[1])>>, LAMBDA p : p # <<>>)

\* split_multi_value(value): the stripped, non-empty comma-separated pieces
split_multi_value(value) ==
    IF value = <<>> THEN <<>>
    ELSE SelectSeq([i \in 1..Len(SplitOn(value, ",")) |-> Strip(SplitOn(value, ",")[i])],
                   LAMBDA p : p # <<>>)

\* ------------------------------------------------------------------------
\* Matcher
\* ------------------------------------------------------------------------

RECURSIVE LcsAtLeast(_, _, _)
\* the longest common subsequence of a and b has at least k characters
LcsAtLeast(a, b, k) ==
    IF k <= 0 THEN TRUE
    ELSE IF Len(a) < k \/ Len(b) < k THEN FALSE
    ELSE IF Head(a) = Head(b) THEN LcsAtLeast(Tail(a), Tail(b), k - 1)
    ELSE LcsAtLeast(Tail(a), b, k) \/ LcsAtLeast(a, Tail(b), k)

\* fuzz.ratio(a, b) >= thr, where ratio = 200 * lcs / (len(a) + len(b))
\* (100 for two empty strings)
RatioAtLeast(a, b, thr) ==
    LcsAtLeast(a, b, (thr * (Len(a) + Len(b)) + 199) \div 200)

\* fuzz.partial_ratio(a, b) >= thr: the best fuzz.ratio of the shorter string
\* against a window of the longer one (windows of the shorter's length, and
\* the shorter prefixes and suffixes); 0 when exactly one string is empty
PartialRatioAtLeast(a, b, thr) ==
    LET s == IF Len(a) <= Len(b) THEN a ELSE b
        l == IF Len(a) <= Len(b) THEN b ELSE a
        m == Len(s)
    IN  IF l = <<>> THEN TRUE
        ELSE IF s = <<>> THEN thr <= 0
        ELSE \/ \E i \in 1..(Len(l) - m + 1) : RatioAtLeast(s, SubSeq(l, i, i + m - 1), thr)
             \/ \E k \in 1..(m - 1) : RatioAtLeast(s, SubSeq(l, 1, k), thr)
             \/ \E k \in 1..(m - 1) : RatioAtLeast(s, SubSeq(l, Len(l) - k + 1, Len(l)), thr)

\* max(partial_ratio, ratio) >= fuzzy_threshold
FuzzyScoreAtLeast(content, word, thr) ==
    PartialRatioAtLeast(content, word, thr) \/ RatioAtLeast(content, word, thr)

\* the query words that count: normalised, of length >= 2
CountedWords(query_words) ==
    SelectSeq([i \in 1..Len(query_words) |-> normalize_text(query_words[i])],
              LAMBDA w : Len(w) >= 2)

\* exact_match in which one query word found in the field is enough
exact_match_anyWord(query_words, field_content) ==
    IF query_words = <<>> \/ field_content = <<>> THEN FALSE
    ELSE LET normalized_content == normalize_text(field_content)
             ws == CountedWords(query_words)
         IN  \E i \in 1..Len(ws) : IsSubstr(ws[i], normalized_content)

\* exact_match that fails when no query word counts
exact_match_needsWord(query_words, field_content) ==
    IF query_words = <<>> \/ field_content = <<>> THEN FALSE
    ELSE LET normalized_content == normalize_text(field_content)
             ws == CountedWords(query_words)
         IN  /\ ws # <<>>
             /\ \A i \in 1..Len(ws) : IsSubstr(ws[i], normalized_content)

\* exact_match(query_words, field_content)
exact_match(query_words, field_content) ==
    IF query_words = <<>> \/ field_content = <<>> THEN FALSE
    ELSE LET normalized_content == normalize_text(field_content)
             ws == CountedWords(query_words)
         IN  \A i \in 1..Len(ws) : IsSubstr(ws[i], normalized_content)

\* one iteration of _fuzzy_match_all_words: the if / elif chain on one word
WordMatchedAll(normalized_word, normalized_content, fuzzy_threshold) ==
    LET word_matched == FALSE
        content_words == SplitWords(normalized_content)
    IN  IF IsSubstr(normalized_word, normalized_content) THEN TRUE
        ELSE IF ~word_matched
        THEN \E j \in 1..Len(content_words) : StartsWith(content_words[j], normalized_word)
        ELSE IF ~word_matched /\ Len(normalized_word) >= 3
        THEN \E j \in 1..Len(content_words) : IsSubstr(normalized_word, content_words[j])
        ELSE IF ~word_matched /\ Len(normalized_word) >= 3
        THEN FuzzyScoreAtLeast(normalized_content, normalized_word, fuzzy_threshold)
        ELSE FALSE

\* _fuzzy_match_all_words(query_words, field_content, fuzzy_threshold)
fuzzy_match_all_words(query_words, field_content, fuzzy_threshold) ==
    LET normalized_content == normalize_text(field_content)
        ws == CountedWords(query_words)
    IN  \A i \in 1..Len(ws) : WordMatchedAll(ws[i], normalized_content, fuzzy_threshold)

\* one iteration of _fuzzy_match_any_word
WordMatchedAny(normalized_word, normalized_content, fuzzy_threshold) ==
    LET content_words == SplitWords(normalized_content)
    IN  \/ IsSubstr(normalized_word, normalized_content)
        \/ \E j \in 1..Len(content_words) : StartsWith(content_words[j], normalized_word)
        \/ /\ Len(normalized_word) >= 3
           /\ \/ \E j \in 1..Len(content_words) : IsSubstr(normalized_word, content_words[j])
              \/ FuzzyScoreAtLeast(normalized_content, normalized_word, fuzzy_threshold)

\* _fuzzy_match_any_word(query_words, field_content, fuzzy_threshold)
fuzzy_match_any_word(query_words, field_content, fuzzy_threshold) ==
    LET normalized_content == normalize_text(field_content)
        ws == CountedWords(query_words)
    IN  \E i \in 1..Len(ws) : WordMatchedAny(ws[i], normalized_content, fuzzy_threshold)

Moto == <<"m", "o", "t", "o">>

\* vehicle_type == "moto"
IsMoto(vehicle_type) == vehicle_type.t = "str" /\ vehicle_type.s = Moto

\* fuzzy_match with the any-word policy for every vehicle kind
fuzzy_match_anyKind(query_words, field_content, vehicle_type) ==
    IF query_words = <<>> \/ field_content = <<>> THEN FALSE
    ELSE fuzzy_match_any_word(query_words, field_content, 90)

\* fuzzy_match(query_words, field_content, vehicle_type)
fuzzy_match(query_words, field_content, vehicle_type) ==
    IF query_words = <<>> \/ field_content = <<>> THEN FALSE
    ELSE IF IsMoto(vehicle_type)
    THEN fuzzy_match_all_words(query_words, field_content, 98)
    ELSE fuzzy_match_any_word(query_words, field_content, 90)

\* model_match(query_words, field_content, vehicle_type)
model_match(query_words, field_content, vehicle_type) ==
    \/ exact_match(query_words, field_content)
    \/ fuzzy_match(query_words, field_content, vehicle_type)

\* _any_csv_value_matches(raw_val, field_val, vehicle_type, word_matcher);
\* word_matcher is the name of the method passed: "model_match" or "fuzzy_match"
any_csv_value_matches(raw_val, field_val, vehicle_type, word_matcher) ==
    IF raw_val = <<>> THEN FALSE
    ELSE LET vals == split_multi_value(raw_val)
         IN  \E i \in 1..Len(vals) :
                 IF word_matcher = "model_match"
                 THEN model_match(SplitWords(vals[i]), field_val, vehicle_type)
                 ELSE fuzzy_match(SplitWords(vals[i]), field_val, vehicle_type)

\* ------------------------------------------------------------------------
\* Filter engine, range filters, ranker
\* ------------------------------------------------------------------------

\* self.exact_fields
exact_fields == {"tipo", "marca", "cambio", "motor", "portas"}

\* the per-vehicle test of one filter in apply_filters (the three matches(v))
VehiclePasses(v, filter_key, filter_value) ==
    LET vt == GetOrEmpty(v, "tipo")
    IN  IF filter_key = "modelo"
        THEN \E field \in {"modelo", "titulo", "versao"} :
                 any_csv_value_matches(filter_value, PyStr(GetOrEmpty(v, field)), vt, "model_match")
        ELSE IF filter_key \in {"cor", "categoria", "opcionais", "combustivel"}
        THEN any_csv_value_matches(filter_value, PyStr(GetOrEmpty(v, filter_key)), vt, "fuzzy_match")
        ELSE IF filter_key \in exact_fields
        THEN \E i \in 1..Len(split_multi_value(filter_value)) :
                 normalize_text(PyStr(GetOrEmpty(v, filter_key)))
                     = normalize_text(split_multi_value(filter_value)[i])
        ELSE TRUE

RECURSIVE ApplyFiltersFrom(_, _, _)
\* the loop of apply_filters from the i-th entry of the filters dict
ApplyFiltersFrom(filtered_vehicles, fs, i) ==
    IF i > Len(fs) THEN filtered_vehicles
    ELSE IF fs[i].v = <<>> \/ filtered_vehicles = <<>>
    THEN ApplyFiltersFrom(filtered_vehicles, fs, i + 1)
    ELSE ApplyFiltersFrom(SelectSeq(filtered_vehicles, LAMBDA v : VehiclePasses(v, fs[i].k, fs[i].v)),
                          fs, i + 1)

\* apply_filters in which only the last filter of the dict is applied
apply_filters_lastWins(vs, fs) == IF fs = <<>> THEN vs ELSE ApplyFiltersFrom(vs, fs, Len(fs))

\* apply_filters(vehicles, filters); filters is the dict as the sequence of its
\* items [k, v] in insertion order
apply_filters(vs, fs) == IF fs = <<>> THEN vs ELSE ApplyFiltersFrom(vs, fs, 1)

\* the year ceiling of apply_range_filters
WithinYear(v, max_year) ==
    convert_year(Get(v, "ano")).ok /\ convert_year(Get(v, "ano")).val <= max_year

\* the odometer ceiling of apply_range_filters
WithinKm(v, max_km) ==
    convert_km(Get(v, "km")).ok /\ convert_km(Get(v, "km")).val <= max_km

\* apply_range_filters with the ceilings compared by < in place of <=
apply_range_filters_strict(vs, vmax, amax, kmax, cmax) ==
    LET byYear == IF amax # <<>> /\ ParseInt(amax).ok
                  THEN SelectSeq(vs, LAMBDA v : WithinYear(v, ParseInt(amax).val - 1))
                  ELSE vs
    IN  IF kmax # <<>> /\ ParseInt(kmax).ok
        THEN SelectSeq(byYear, LAMBDA v : WithinKm(v, ParseInt(kmax).val - 1))
        ELSE byYear

\* apply_range_filters with valormax as a price ceiling
apply_range_filters_priceCeiling(vs, vmax, amax, kmax, cmax) ==
    LET byPrice == IF vmax # <<>> /\ ParseFloat(vmax).ok
                   THEN SelectSeq(vs, LAMBDA v : /\ convert_price(Get(v, "preco")).ok
                                                 /\ convert_price(Get(v, "preco")).val
                                                        <= ParseFloat(vmax).val)
                   ELSE vs
        byYear == IF amax # <<>> /\ ParseInt(amax).ok
                  THEN SelectSeq(byPrice, LAMBDA v : WithinYear(v, ParseInt(amax).val))
                  ELSE byPrice
    IN  IF kmax # <<>> /\ ParseInt(kmax).ok
        THEN SelectSeq(byYear, LAMBDA v : WithinKm(v, ParseInt(kmax).val))
        ELSE byYear

\* apply_range_filters keeping the vehicles whose year or odometer does not parse
apply_range_filters_lenient(vs, vmax, amax, kmax, cmax) ==
    LET byYear == IF amax # <<>> /\ ParseInt(amax).ok
                  THEN SelectSeq(vs, LAMBDA v : \/ ~convert_year(Get(v, "ano")).ok
                                                \/ WithinYear(v, ParseInt(amax).val))
                  ELSE vs
    IN  IF kmax # <<>> /\ ParseInt(kmax).ok
        THEN SelectSeq(byYear, LAMBDA v : \/ ~convert_km(Get(v, "km")).ok
                                          \/ WithinKm(v, ParseInt(kmax).val))
        ELSE byYear

\* apply_range_filters(vehicles, valormax, anomax, kmmax, ccmax): valormax and
\* ccmax exclude nothing; a ceiling that int() rejects is skipped
apply_range_filters(vs, vmax, amax, kmax, cmax) ==
    LET byYear == IF amax # <<>> /\ ParseInt(amax).ok
                  THEN SelectSeq(vs, LAMBDA v : WithinYear(v, ParseInt(amax).val))
                  ELSE vs
    IN  IF kmax # <<>> /\ ParseInt(kmax).ok
        THEN SelectSeq(byYear, LAMBDA v : WithinKm(v, ParseInt(kmax).val))
        ELSE byYear

Abs(x) == IF x < 0 THEN 0 - x ELSE x

\* x or 0
OrZero(x) == IF x.ok THEN x.val ELSE 0

\* a sort key: a number, or float('inf')
Key(n) == [inf |-> FALSE, val |-> n]

KeyInf == [inf |-> TRUE, val |-> 0]

KeyLess(a, b) == ~a.inf /\ (b.inf \/ a.val < b.val)

\* sorted(xs, key, reverse): stable in both directions; keys[i] is the key of xs[i]
Sorted(xs, keys, reverse) ==
    LET Before(j, i) == \/ IF reverse THEN KeyLess(keys[i], keys[j]) ELSE KeyLess(keys[j], keys[i])
                        \/ (keys[j] = keys[i] /\ j < i)
        Rank(i) == Cardinality({j \in 1..Len(xs) : Before(j, i)}) + 1
    IN  [p \in 1..Len(xs) |-> xs[CHOOSE i \in 1..Len(xs) : Rank(i) = p]]

\* the displacement (resp. price) a CcMax (resp. ValorMax) value targets
TargetCc(cmax) == IF ParseFloat(cmax).val < 10 * Scale THEN ParseFloat(cmax).val * 1000 ELSE ParseFloat(cmax).val

\* sort_vehicles(vehicles, valormax, anomax, kmmax, ccmax)
sort_vehicles(vs, vmax, amax, kmax, cmax) ==
    IF vs = <<>> THEN vs
    ELSE IF cmax # <<>> /\ ParseFloat(cmax).ok
    THEN Sorted(vs, [i \in 1..Len(vs) |->
                       Key(Abs(OrZero(convert_cc(Get(vs[i], "cilindrada"))) - TargetCc(cmax)))], FALSE)
    ELSE IF vmax # <<>> /\ ParseFloat(vmax).ok
    THEN Sorted(vs, [i \in 1..Len(vs) |->
                       Key(Abs(OrZero(convert_price(Get(vs[i], "preco"))) - ParseFloat(vmax).val))], FALSE)
    ELSE IF kmax # <<>>
    THEN Sorted(vs, [i \in 1..Len(vs) |->
                       IF OrZero(convert_km(Get(vs[i], "km"))) # 0
                       THEN Key(convert_km(Get(vs[i], "km")).val) ELSE KeyInf], FALSE)
    ELSE IF amax # <<>>
    THEN Sorted(vs, [i \in 1..Len(vs) |-> Key(OrZero(convert_year(Get(vs[i], "ano"))))], TRUE)
    ELSE Sorted(vs, [i \in 1..Len(vs) |-> Key(OrZero(convert_price(Get(vs[i], "preco"))))], TRUE)

\* the vehicles whose str(id) is not in excluded_ids
NotExcluded(vs, excl) ==
    IF excl = {} THEN vs ELSE SelectSeq(vs, LAMBDA v : PyStr(Get(v, "id")) \notin excl)

\* ------------------------------------------------------------------------
\* Category lookup (vehicle_mappings tables, find_category_by_model)
\* ------------------------------------------------------------------------

\* MAPEAMENTO_MOTOS: key -> (displacement, category), in the dict's order
MAPEAMENTO_MOTOS ==
    << [key |-> <<"c", "g", "1", "6", "0">>, cc |-> 160, category |-> <<"s", "t", "r">>],
       [key |-> <<"x", "r", "e">>, cc |-> 300, category |-> <<"t", "r", "l">>] >>

\* MAPEAMENTO_CATEGORIAS: key -> category, in the dict's order
MAPEAMENTO_CATEGORIAS ==
    << [key |-> <<"o", "n", "i", "x">>, category |-> <<"H", "a", "t">>],
       [key |-> <<"n", "i", "v", "u", "s">>, category |-> <<"S", "U", "V">>] >>

\* the category of the first entry of table among the positions hits, "" if none
FirstCategory(table, hits) ==
    IF hits # {}
    THEN table[CHOOSE i \in hits : \A j \in hits : i <= j].category
    ELSE <<>>

\* the three lookups of find_category_by_model in one table: the whole
\* normalised model as a key, then its words of length >= 3, then the first
\* key that contains the model or is contained in it
LookupIn(table, normalized_model) ==
    LET model_words == SplitWords(normalized_model)
        IsKey(w) == \E i \in 1..Len(table) : table[i].key = w
        Hit(w) == Len(w) >= 3 /\ IsKey(w)
    IN  IF IsKey(normalized_model)
        THEN FirstCategory(table, {i \in 1..Len(table) : table[i].key = normalized_model})
        ELSE IF \E j \in 1..Len(model_words) : Hit(model_words[j])
        THEN LET w == model_words[CHOOSE j \in 1..Len(model_words) :
                          Hit(model_words[j]) /\ \A h \in 1..(j - 1) : ~Hit(model_words[h])]
             IN  FirstCategory(table, {i \in 1..Len(table) : table[i].key = w})
        ELSE FirstCategory(table, {i \in 1..Len(table) :
                                     \/ IsSubstr(table[i].key, normalized_model)
                                     \/ IsSubstr(normalized_model, table[i].key)})

\* find_category_by_model(model): motorcycles first, then cars; "" for None
find_category_by_model(model) ==
    IF model = <<>> THEN <<>>
    ELSE LET normalized_model == normalize_text(model)
             exactMoto == \E i \in 1..Len(MAPEAMENTO_MOTOS) : MAPEAMENTO_MOTOS[i].key = normalized_model
             wordMoto == \E j \in 1..Len(SplitWords(normalized_model)) :
                            /\ Len(SplitWords(normalized_model)[j]) >= 3
                            /\ \E i \in 1..Len(MAPEAMENTO_MOTOS) :
                                   MAPEAMENTO_MOTOS[i].key = SplitWords(normalized_model)[j]
             subMoto == \E i \in 1..Len(MAPEAMENTO_MOTOS) :
                            \/ IsSubstr(MAPEAMENTO_MOTOS[i].key, normalized_model)
                            \/ IsSubstr(normalized_model, MAPEAMENTO_MOTOS[i].key)
         IN  IF exactMoto \/ wordMoto \/ subMoto
             THEN LookupIn(MAPEAMENTO_MOTOS, normalized_model)
             ELSE LookupIn(MAPEAMENTO_CATEGORIAS, normalized_model)

\* ------------------------------------------------------------------------
\* Inputs: the inventory (data.json) and the request's query parameters
\* ------------------------------------------------------------------------

\* largest inventory
MaxVehicles == 7

\* most query parameters present in one request
MaxParams == 2

\* vehicle records as the ingestion deposits them (without the id)
Templates ==
    <<
       [tipo |-> JStr(<<"m", "o", "t", "o">>),
         marca |-> JStr(<<"H", "o", "n">>),
         modelo |-> JStr(<<"C", "G", " ", "1", "6", "0">>),
         titulo |-> JAbsent,
         versao |-> JAbsent,
         categoria |-> JStr(<<"s", "t", "r">>),
         cor |-> JStr(<<"r", "e", "d">>),
         combustivel |-> JStr(<<"g", "a", "s">>),
         cambio |-> JStr(<<"M", "T">>),
         motor |-> JAbsent,
         portas |-> JAbsent,
         opcionais |-> JNull,
         ano |-> JStr(<<"2", "0", "1", "8">>),
         km |-> JStr(<<"5", "0", "0", "0", "0">>),
         cilindrada |-> JNum(160),
         preco |-> JStr(<<"1", "2", "0", "0", "0", ",", "0", "0">>)],
       [tipo |-> JStr(<<"c", "a", "r", "r", "o">>),
         marca |-> JStr(<<"V", "W">>),
         modelo |-> JStr(<<"N", "i", "v", "u", "s">>),
         titulo |-> JAbsent,
         versao |-> JAbsent,
         categoria |-> JStr(<<"S", "U", "V">>),
         cor |-> JStr(<<"a", "z", "u", "l">>),
         combustivel |-> JStr(<<"f", "l", "e", "x">>),
         cambio |-> JStr(<<"A", "T">>),
         motor |-> JStr(<<"1", ".", "0">>),
         portas |-> JNum(4),
         opcionais |-> JStr(<<"a", "b", "s">>),
         ano |-> JNull,
         km |-> JNull,
         cilindrada |-> JNull,
         preco |-> JNull],
       [tipo |-> JStr(<<"c", "a", "r", "r", "o">>),
         marca |-> JStr(<<"G", "M">>),
         modelo |-> JStr(<<"O", "n", "i", "x">>),
         titulo |-> JAbsent,
         versao |-> JStr(<<"L", "T">>),
         categoria |-> JStr(<<"H", "a", "t">>),
         cor |-> JStr(<<"r", "e", "d">>),
         combustivel |-> JStr(<<"f", "l", "e", "x">>),
         cambio |-> JStr(<<"M", "T">>),
         motor |-> JStr(<<"1", ".", "0">>),
         portas |-> JNum(4),
         opcionais |-> JStr(<<"a", "r", ",", "a", "b", "s">>),
         ano |-> JNum(2020),
         km |-> JStr(<<"3", "0", ".", "0", "0", "0">>),
         cilindrada |-> JStr(<<"1", ".", "0">>),
         preco |-> JNum(50000)],
       [tipo |-> JStr(<<"c", "a", "r", "r", "o">>),
         marca |-> JStr(<<"G", "M">>),
         modelo |-> JStr(<<"O", "n", "i", "x">>),
         titulo |-> JAbsent,
         versao |-> JAbsent,
         categoria |-> JStr(<<"S", "e", "d">>),
         cor |-> JStr(<<"a", "z", "u", "l">>),
         combustivel |-> JStr(<<"f", "l", "e", "x">>),
         cambio |-> JStr(<<"A", "T">>),
         motor |-> JStr(<<"1", ".", "6">>),
         portas |-> JNum(4),
         opcionais |-> JStr(<<"a", "r">>),
         ano |-> JStr(<<"2", "0", "2", "2">>),
         km |-> JNum(10000),
         cilindrada |-> JStr(<<"1", ".", "6">>),
         preco |-> JNum(80000)],
       [tipo |-> JStr(<<"m", "o", "t", "o">>),
         marca |-> JStr(<<"H", "o", "n">>),
         modelo |-> JStr(<<"X", "R", "E">>),
         titulo |-> JAbsent,
         versao |-> JStr(<<"3", "0", "0">>),
         categoria |-> JStr(<<"t", "r", "l">>),
         cor |-> JStr(<<"r", "e", "d">>),
         combustivel |-> JStr(<<"g", "a", "s">>),
         cambio |-> JStr(<<"M", "T">>),
         motor |-> JAbsent,
         portas |-> JAbsent,
         opcionais |-> JAbsent,
         ano |-> JNum(2021),
         km |-> JStr(<<"0">>),
         cilindrada |-> JStr(<<"3", "0", "0">>),
         preco |-> JNum(20000)],
       [tipo |-> JStr(<<"c", "a", "r", "r", "o">>),
         marca |-> JStr(<<"V", "W">>),
         modelo |-> JStr(<<"P", "o", "l", "o">>),
         titulo |-> JAbsent,
         versao |-> JAbsent,
         categoria |-> JStr(<<"H", "a", "t">>),
         cor |-> JStr(<<"r", "e", "d">>),
         combustivel |-> JStr(<<"f", "l", "e", "x">>),
         cambio |-> JStr(<<"M", "T">>),
         motor |-> JStr(<<"1", ".", "6">>),
         portas |-> JNum(2),
         opcionais |-> JStr(<<"a", "r">>),
         ano |-> JStr(<<"2", "0", "1", "9", "\n">>),
         km |-> JStr(<<"4", "5", ".", "0", "0", "0">>),
         cilindrada |-> JStr(<<"1", ",", "6", "L">>),
         preco |-> JStr(<<"R", "$", " ", "6", "0", ".", "0", "0", "0", ",", "0", "0">>)],
       [tipo |-> JStr(<<"c", "a", "r", "r", "o">>),
         marca |-> JStr(<<"G", "M">>),
         modelo |-> JStr(<<"O", "n", "i", "x">>),
         titulo |-> JAbsent,
         versao |-> JStr(<<"L", "T">>),
         categoria |-> JStr(<<"H", "a", "t">>),
         cor |-> JStr(<<"r", "e", "d">>),
         combustivel |-> JStr(<<"f", "l", "e", "x">>),
         cambio |-> JStr(<<"M", "T">>),
         motor |-> JStr(<<"1", ".", "0">>),
         portas |-> JNum(4),
         opcionais |-> JStr(<<"a", "r", ",", "a", "b", "s">>),
         ano |-> JNum(2020),
         km |-> JNum(0),
         cilindrada |-> JStr(<<"1", ".", "0">>),
         preco |-> JNum(50000)]
    >>

\* the i-th vehicle of the feed: ids are the positions in the feed
Vehicle(i) == [id |-> JNum(i)] @@ Templates[((i - 1) % Len(Templates)) + 1]

\* the inventories: the first n vehicles of the feed, n = 0 .. MaxVehicles
Inventories == {[j \in 1..n |-> Vehicle(j)] : n \in 0..MaxVehicles}

\* the named filters get_data reads, in the order of its dict literal
FilterOrder ==
    <<"tipo", "modelo", "categoria", "cambio", "opcionais", "marca", "cor",
      "combustivel", "motor", "portas">>

RangeParams == {"ValorMax", "AnoMax", "KmMax", "CcMax"}

ParamNames == {FilterOrder[i] : i \in 1..Len(FilterOrder)} \cup RangeParams \cup {"excluir"}

\* the values a query parameter takes when it is present
ParamValues ==
    [
       tipo |-> << <<"m", "o", "t", "o">>, <<"c", "a", "r", "r", "o">> >>,
       modelo |-> << <<"o", "n", "i", "x">>, <<"c", "g", " ", "1", "6", "0">>, <<"k", "a">> >>,
       categoria |-> << <<"v", "a", "n">>, <<"S", "U", "V", ",", "S", "e", "d">> >>,
       cambio |-> << <<"A", "T">> >>,
       opcionais |-> << <<"a", "b", "s">> >>,
       marca |-> << <<"G", "M">> >>,
       cor |-> << <<"r", "e", "d">> >>,
       combustivel |-> << <<"f", "l", "e", "x">> >>,
       motor |-> << <<"1", ".", "0">> >>,
       portas |-> << <<"4">> >>,
       ValorMax |-> << <<"6", "0", "0", "0", "0">>, <<"1", "0", "0">>, <<"a", "b", "c">> >>,
       AnoMax |-> << <<"2", "0", "2", "0">>, <<"2", "0", "1", "7">>, <<"x">>, <<"2", "0", "1", "8", ",", "2", "0", "2", "0">> >>,
       KmMax |-> << <<"3", "0", "0", "0", "0">>, <<"5">>, <<"a", "b", "c">>, <<"3", "0", "0", "0", "0", ",", "5", "0", "0", "0", "0">> >>,
       CcMax |-> << <<"1", ".", "0">>, <<"1", ".", "0", ",", "2", "0", "0", "0">> >>,
       excluir |-> << <<"1">>, <<"3", ",", " ", "4">> >>
    ]

\* the requests: at most MaxParams parameters present, each with one of its values
Queries ==
    UNION {
        {[k \in ParamNames |-> IF k \in S THEN ParamValues[k][f[k]] ELSE <<>>] :
            f \in {g \in [S -> 1..4] : \A k \in S : g[k] <= Len(ParamValues[k])}} :
        S \in {T \in SUBSET ParamNames : Cardinality(T) <= MaxParams}}

\* ------------------------------------------------------------------------
\* State
\* ------------------------------------------------------------------------

VARIABLES
    vehicles,          \* the inventory loaded from data.json
    query,             \* the request's query parameters ("" when absent)
    pc,                \* "request", "search", "loop", "done", "raised"
    filters,           \* search_with_fallback's arguments ...
    valormax,
    anomax,
    kmmax,
    ccmax,
    excluded_ids,
    current_filters,   \* ... and its locals
    current_anomax,
    current_kmmax,
    removed_filters,
    step,              \* position of the for loop in FALLBACK_PRIORITY
    result,            \* the SearchResult returned (kind "none" before)
    call,              \* a direct call of one function of the engine: its name and arguments
    ret,               \* the value that call returned
    data_json,         \* the file data.json: the text written so far
    fetcher,           \* the scheduler thread running fetch_all
    requests,          \* the get_data calls in progress, one per worker thread
    heap               \* the vehicle dicts created by json.load, by address

vars ==
    <<vehicles, query, pc, filters, valormax, anomax, kmmax, ccmax, excluded_ids,
      current_filters, current_anomax, current_kmmax, removed_filters, step, result,
      call, ret, data_json, fetcher, requests, heap>>

\* the state of the server: the file, the scheduler thread, the requests and their objects
serving == <<data_json, fetcher, requests, heap>>

\* FALLBACK_PRIORITY with modelo relaxed first
FALLBACK_PRIORITY_modeloFirst ==
    <<"modelo", "motor", "portas", "cor", "combustivel", "opcionais", "cambio", "KmMax",
      "AnoMax", "marca", "categoria">>

FALLBACK_PRIORITY ==
    <<"motor", "portas", "cor", "combustivel", "opcionais", "cambio", "KmMax",
      "AnoMax", "modelo", "marca", "categoria">>

\* sorted_vehicles[:6]
PageSize == 6

NoInfo == [present |-> FALSE, removed_filters |-> <<>>]

\* {"fallback": {"removed_filters": removed_filters}}
Info(removed) == [present |-> TRUE, removed_filters |-> removed]

NoResult == [kind |-> "none", vehicles |-> <<>>, total_found |-> 0,
             fallback_info |-> NoInfo, removed_filters |-> <<>>]

\* SearchResult with total_found taken after the truncation
SearchResult_pageTotal(sorted_vehicles, info, removed) ==
    [kind |-> "search",
     vehicles |-> SubSeq(sorted_vehicles, 1, IF Len(sorted_vehicles) < PageSize
                                             THEN Len(sorted_vehicles) ELSE PageSize),
     total_found |-> IF Len(sorted_vehicles) < PageSize THEN Len(sorted_vehicles) ELSE PageSize,
     fallback_info |-> info,
     removed_filters |-> removed]

\* SearchResult(vehicles=sorted_vehicles[:6], total_found=len(sorted_vehicles), ...)
SearchResult(sorted_vehicles, info, removed) ==
    [kind |-> "search",
     vehicles |-> SubSeq(sorted_vehicles, 1, IF Len(sorted_vehicles) < PageSize
                                             THEN Len(sorted_vehicles) ELSE PageSize),
     total_found |-> Len(sorted_vehicles),
     fallback_info |-> info,
     removed_filters |-> removed]

\* an entry of removed_filters: a plain name; "modelo(value)"; or
\* "modelo(value)->categoria(category)"
Removed(name) == [name |-> name, value |-> <<>>, category |-> <<>>]

RemovedModelo(value, category) == [name |-> "modelo", value |-> value, category |-> category]

HasKey(fs, k) == \E i \in 1..Len(fs) : fs[i].k = k

ValueOf(fs, k) == fs[CHOOSE i \in 1..Len(fs) : fs[i].k = k].v

\* {k: v for k, v in fs.items() if k != key}
Without(fs, key) == SelectSeq(fs, LAMBDA e : e.k # key)

\* fs[key] = value: in place when the key is there, appended otherwise
SetKey(fs, key, value) ==
    IF HasKey(fs, key)
    THEN [i \in 1..Len(fs) |-> IF fs[i].k = key THEN [k |-> key, v |-> value] ELSE fs[i]]
    ELSE Append(fs, [k |-> key, v |-> value])

\* no direct call
NoCall == [fn |-> "none"]

NotReturned == [done |-> FALSE]

Returns(value) == [done |-> TRUE, value |-> value]

\* the file as fetch_all leaves it: the vehicles written and whether the text is whole
File(veiculos, closed) == [veiculos |-> veiculos, closed |-> closed]

\* no server is running: a single request or a direct call is modelled
NotServing ==
    /\ data_json = File(<<>>, TRUE)
    /\ fetcher = [pc |-> "off", result |-> <<>>]
    /\ requests = <<>>
    /\ heap = <<>>

Init ==
    /\ vehicles \in Inventories
    /\ query \in Queries
    /\ pc = "request"
    /\ filters = <<>>
    /\ valormax = <<>>
    /\ anomax = <<>>
    /\ kmmax = <<>>
    /\ ccmax = <<>>
    /\ excluded_ids = {}
    /\ current_filters = <<>>
    /\ current_anomax = <<>>
    /\ current_kmmax = <<>>
    /\ removed_filters = <<>>
    /\ step = 0
    /\ result = NoResult
    /\ call = NoCall
    /\ ret = NotReturned
    /\ NotServing

\* ------------------------------------------------------------------------
\* get_data: the parameters of the call
\* ------------------------------------------------------------------------

\* filters = {k: v for k, v in filters.items() if v}
RequestFilters(q) ==
    SelectSeq([i \in 1..Len(FilterOrder) |-> [k |-> FilterOrder[i], v |-> q[FilterOrder[i]]]],
              LAMBDA e : e.v # <<>>)

\* excluded_ids = set(e.strip() for e in excluir.split(",") if e.strip())
RequestExcluded(q) ==
    {split_multi_value(q["excluir"])[i] : i \in 1..Len(split_multi_value(q["excluir"]))}

\* has_search_filters
HasSearchFilters(q) ==
    \/ RequestFilters(q) # <<>>
    \/ \E r \in RangeParams : get_max_value_from_range_param(q[r]) # <<>>

\* get_data with search filters: calls search_with_fallback
GetDataSearch ==
    /\ pc = "request"
    /\ HasSearchFilters(query)
    /\ pc' = "search"
    /\ filters' = RequestFilters(query)
    /\ valormax' = get_max_value_from_range_param(query["ValorMax"])
    /\ anomax' = get_max_value_from_range_param(query["AnoMax"])
    /\ kmmax' = get_max_value_from_range_param(query["KmMax"])
    /\ ccmax' = get_max_value_from_range_param(query["CcMax"])
    /\ excluded_ids' = RequestExcluded(query)
    /\ UNCHANGED <<vehicles, query, current_filters, current_anomax, current_kmmax,
                   removed_filters, step, result, call, ret, serving>>

\* get_data without search filters: the whole stock, by descending price
GetDataAllStock ==
    /\ pc = "request"
    /\ ~HasSearchFilters(query)
    /\ pc' = "done"
    /\ excluded_ids' = RequestExcluded(query)
    /\ LET all_vehicles == NotExcluded(vehicles, RequestExcluded(query))
           sorted_vehicles == Sorted(all_vehicles,
                                     [i \in 1..Len(all_vehicles) |->
                                        Key(OrZero(convert_price(Get(all_vehicles[i], "preco"))))],
                                     TRUE)
       IN  result' = [kind |-> "all_stock", vehicles |-> sorted_vehicles,
                      total_found |-> Len(sorted_vehicles), fallback_info |-> NoInfo,
                      removed_filters |-> <<>>]
    /\ UNCHANGED <<vehicles, query, filters, valormax, anomax, kmmax, ccmax,
                   current_filters, current_anomax, current_kmmax, removed_filters, step,
                   call, ret, serving>>

\* ------------------------------------------------------------------------
\* search_with_fallback
\* ------------------------------------------------------------------------

\* apply_filters, apply_range_filters and the ID exclusion on the inventory
Attempt(fs, amax, kmax) ==
    NotExcluded(apply_range_filters(apply_filters(vehicles, fs), valormax, amax, kmax, ccmax),
                excluded_ids)

\* the first attempt (lines 484-509): return when it finds vehicles, else
\* enter the fallback loop
FirstAttempt ==
    /\ pc = "search"
    /\ LET filtered_vehicles == Attempt(filters, anomax, kmmax)
       IN  IF filtered_vehicles # <<>>
           THEN /\ pc' = "done"
                /\ result' = SearchResult(sort_vehicles(filtered_vehicles, valormax, anomax, kmmax, ccmax),
                                          NoInfo, <<>>)
                /\ UNCHANGED <<current_filters, current_anomax, current_kmmax, removed_filters, step>>
           ELSE /\ pc' = "loop"
                /\ current_filters' = filters
                /\ removed_filters' = <<>>
                /\ current_anomax' = anomax
                /\ current_kmmax' = kmmax
                /\ step' = 1
                /\ UNCHANGED result
    /\ UNCHANGED <<vehicles, query, filters, valormax, anomax, kmmax, ccmax, excluded_ids,
                   call, ret, serving>>

InLoop == pc = "loop" /\ step \in 1..Len(FALLBACK_PRIORITY)

filter_to_remove == FALLBACK_PRIORITY[step]

Frame ==
    UNCHANGED <<vehicles, query, filters, valormax, anomax, kmmax, ccmax, excluded_ids,
                call, ret, serving>>

\* "continue": the next entry of FALLBACK_PRIORITY, nothing else changes
Continue ==
    /\ step' = step + 1
    /\ UNCHANGED <<pc, current_filters, current_anomax, current_kmmax, removed_filters, result>>
    /\ Frame

\* the re-test without the ID exclusion
Retest_noExclusion(fs, amax, kmax, removed) ==
    /\ current_filters' = fs
    /\ current_anomax' = amax
    /\ current_kmmax' = kmax
    /\ removed_filters' = removed
    /\ LET filtered_vehicles == apply_range_filters(apply_filters(vehicles, fs),
                                                    valormax, amax, kmax, ccmax)
       IN  IF filtered_vehicles # <<>>
           THEN /\ pc' = "done"
                /\ result' = SearchResult(sort_vehicles(filtered_vehicles, valormax, amax, kmax, ccmax),
                                          Info(removed), removed)
                /\ UNCHANGED step
           ELSE /\ step' = step + 1
                /\ UNCHANGED <<pc, result>>
    /\ Frame

\* the re-test with fallback_info built before the relaxation is recorded
Retest_staleInfo(fs, amax, kmax, removed) ==
    /\ current_filters' = fs
    /\ current_anomax' = amax
    /\ current_kmmax' = kmax
    /\ removed_filters' = removed
    /\ LET filtered_vehicles == Attempt(fs, amax, kmax)
       IN  IF filtered_vehicles # <<>>
           THEN /\ pc' = "done"
                /\ result' = SearchResult(sort_vehicles(filtered_vehicles, valormax, amax, kmax, ccmax),
                                          Info(removed_filters), removed)
                /\ UNCHANGED step
           ELSE /\ step' = step + 1
                /\ UNCHANGED <<pc, result>>
    /\ Frame

\* the re-test with the relaxation done in the caller's filters mapping
Retest_inPlace(fs, amax, kmax, removed) ==
    /\ filters' = fs
    /\ current_filters' = fs
    /\ current_anomax' = amax
    /\ current_kmmax' = kmax
    /\ removed_filters' = removed
    /\ LET filtered_vehicles == Attempt(fs, amax, kmax)
       IN  IF filtered_vehicles # <<>>
           THEN /\ pc' = "done"
                /\ result' = SearchResult(sort_vehicles(filtered_vehicles, valormax, amax, kmax, ccmax),
                                          Info(removed), removed)
                /\ UNCHANGED step
           ELSE /\ step' = step + 1
                /\ UNCHANGED <<pc, result>>
    /\ UNCHANGED <<vehicles, query, valormax, anomax, kmmax, ccmax, excluded_ids, call, ret, serving>>

\* the re-test after a relaxation (lines 581-598): return when it finds
\* vehicles, else go on with the next entry
Retest(fs, amax, kmax, removed) ==
    /\ current_filters' = fs
    /\ current_anomax' = amax
    /\ current_kmmax' = kmax
    /\ removed_filters' = removed
    /\ LET filtered_vehicles == Attempt(fs, amax, kmax)
       IN  IF filtered_vehicles # <<>>
           THEN /\ pc' = "done"
                /\ result' = SearchResult(sort_vehicles(filtered_vehicles, valormax, amax, kmax, ccmax),
                                          Info(removed), removed)
                /\ UNCHANGED step
           ELSE /\ step' = step + 1
                /\ UNCHANGED <<pc, result>>
    /\ Frame

\* the exception leaves search_with_fallback: no SearchResult
Raise ==
    /\ pc' = "raised"
    /\ UNCHANGED <<current_filters, current_anomax, current_kmmax, removed_filters, step, result>>
    /\ Frame

\* the KmMax entry with the ceiling active (lines 512-524)
KmTestVehicles == apply_filters(vehicles, current_filters)

\* int(current_kmmax) is evaluated for the first vehicle whose odometer parses
KmTestRaises ==
    /\ ~ParseInt(current_kmmax).ok
    /\ \E i \in 1..Len(KmTestVehicles) : convert_km(Get(KmTestVehicles[i], "km")).ok

vehicles_within_km_limit ==
    IF ParseInt(current_kmmax).ok
    THEN SelectSeq(KmTestVehicles, LAMBDA v : WithinKm(v, ParseInt(current_kmmax).val))
    ELSE <<>>

StepKmMaxRaise ==
    /\ InLoop /\ filter_to_remove = "KmMax" /\ current_kmmax # <<>>
    /\ KmTestRaises
    /\ Raise

StepKmMaxRelax ==
    /\ InLoop /\ filter_to_remove = "KmMax" /\ current_kmmax # <<>>
    /\ ~KmTestRaises
    /\ vehicles_within_km_limit = <<>>
    /\ Retest(current_filters, current_anomax, <<>>, Append(removed_filters, Removed("KmMax")))

StepKmMaxSkip ==
    /\ InLoop /\ filter_to_remove = "KmMax" /\ current_kmmax # <<>>
    /\ ~KmTestRaises
    /\ vehicles_within_km_limit # <<>>
    /\ Continue

\* the AnoMax entry with the ceiling active (lines 526-538)
AnoTestVehicles == apply_filters(vehicles, current_filters)

AnoTestRaises ==
    /\ ~ParseInt(current_anomax).ok
    /\ \E i \in 1..Len(AnoTestVehicles) : convert_year(Get(AnoTestVehicles[i], "ano")).ok

vehicles_within_year_limit ==
    IF ParseInt(current_anomax).ok
    THEN SelectSeq(AnoTestVehicles, LAMBDA v : WithinYear(v, ParseInt(current_anomax).val))
    ELSE <<>>

StepAnoMaxRaise ==
    /\ InLoop /\ filter_to_remove = "AnoMax" /\ current_anomax # <<>>
    /\ AnoTestRaises
    /\ Raise

StepAnoMaxRelax ==
    /\ InLoop /\ filter_to_remove = "AnoMax" /\ current_anomax # <<>>
    /\ ~AnoTestRaises
    /\ vehicles_within_year_limit = <<>>
    /\ Retest(current_filters, <<>>, current_kmmax, Append(removed_filters, Removed("AnoMax")))

StepAnoMaxSkip ==
    /\ InLoop /\ filter_to_remove = "AnoMax" /\ current_anomax # <<>>
    /\ ~AnoTestRaises
    /\ vehicles_within_year_limit # <<>>
    /\ Continue

\* the modelo entry with a modelo filter (lines 540-572)
ModeloStep == InLoop /\ filter_to_remove = "modelo" /\ HasKey(current_filters, "modelo")

CategoriaActive == HasKey(current_filters, "categoria") /\ ValueOf(current_filters, "categoria") # <<>>

\* the modelo step that adds the categoria of the lookup and keeps the modelo filter
StepModeloSubstitute_keepModelo ==
    /\ ModeloStep
    /\ ~CategoriaActive
    /\ find_category_by_model(ValueOf(current_filters, "modelo")) # <<>>
    /\ LET model_value == ValueOf(current_filters, "modelo")
           mapped_category == find_category_by_model(model_value)
       IN  Retest(SetKey(current_filters, "categoria", mapped_category),
                  current_anomax, current_kmmax,
                  Append(removed_filters, RemovedModelo(model_value, mapped_category)))

\* modelo -> categoria: the substituted filters are tested at once (lines
\* 551-564); when that finds nothing the common re-test repeats the same search
StepModeloSubstitute ==
    /\ ModeloStep
    /\ ~CategoriaActive
    /\ find_category_by_model(ValueOf(current_filters, "modelo")) # <<>>
    /\ LET model_value == ValueOf(current_filters, "modelo")
           mapped_category == find_category_by_model(model_value)
       IN  Retest(SetKey(Without(current_filters, "modelo"), "categoria", mapped_category),
                  current_anomax, current_kmmax,
                  Append(removed_filters, RemovedModelo(model_value, mapped_category)))

\* no mapping, or a categoria filter is already there: modelo is dropped
StepModeloDrop ==
    /\ ModeloStep
    /\ CategoriaActive \/ find_category_by_model(ValueOf(current_filters, "modelo")) = <<>>
    /\ Retest(Without(current_filters, "modelo"), current_anomax, current_kmmax,
              Append(removed_filters, RemovedModelo(ValueOf(current_filters, "modelo"), <<>>)))

\* the entry is handled by one of the three special branches
SpecialBranch ==
    \/ filter_to_remove = "KmMax" /\ current_kmmax # <<>>
    \/ filter_to_remove = "AnoMax" /\ current_anomax # <<>>
    \/ filter_to_remove = "modelo" /\ HasKey(current_filters, "modelo")

\* the removal of an ordinary filter that drops the tipo filter along with it
StepRemoveFilter_dropsTipo ==
    /\ InLoop
    /\ ~SpecialBranch
    /\ HasKey(current_filters, filter_to_remove)
    /\ Retest(Without(Without(current_filters, filter_to_remove), "tipo"),
              current_anomax, current_kmmax,
              Append(removed_filters, Removed(filter_to_remove)))

\* the removal of an ordinary filter that leaves a categoria filter in force
StepRemoveFilter_keepsCategoria ==
    /\ InLoop
    /\ ~SpecialBranch
    /\ HasKey(current_filters, filter_to_remove)
    /\ IF filter_to_remove = "categoria"
       THEN Continue
       ELSE Retest(Without(current_filters, filter_to_remove), current_anomax, current_kmmax,
                   Append(removed_filters, Removed(filter_to_remove)))

\* an ordinary filter of current_filters is removed (lines 574-577)
StepRemoveFilter ==
    /\ InLoop
    /\ ~SpecialBranch
    /\ HasKey(current_filters, filter_to_remove)
    /\ Retest(Without(current_filters, filter_to_remove), current_anomax, current_kmmax,
              Append(removed_filters, Removed(filter_to_remove)))

\* the entry is not active (lines 578-579)
StepInactive ==
    /\ InLoop
    /\ ~SpecialBranch
    /\ ~HasKey(current_filters, filter_to_remove)
    /\ Continue

\* the loop is over without a result (lines 600-606)
Exhausted ==
    /\ pc = "loop" /\ step = Len(FALLBACK_PRIORITY) + 1
    /\ pc' = "done"
    /\ result' = [kind |-> "search", vehicles |-> <<>>, total_found |-> 0,
                  fallback_info |-> NoInfo, removed_filters |-> removed_filters]
    /\ UNCHANGED <<current_filters, current_anomax, current_kmmax, removed_filters, step>>
    /\ Frame

Next ==
    \/ GetDataSearch
    \/ GetDataAllStock
    \/ FirstAttempt
    \/ StepKmMaxRaise
    \/ StepKmMaxRelax
    \/ StepKmMaxSkip
    \/ StepAnoMaxRaise
    \/ StepAnoMaxRelax
    \/ StepAnoMaxSkip
    \/ StepModeloSubstitute
    \/ StepModeloDrop
    \/ StepRemoveFilter
    \/ StepInactive
    \/ Exhausted

Spec == Init /\ [][Next]_vars

\* ------------------------------------------------------------------------
\* Direct calls of the engine's functions
\* ------------------------------------------------------------------------

\* most words in the query of a model_match call
MaxWords == 2

\* longest text given to the normalisations
MaxTextLen == 3

\* the query words, field texts and vehicle kinds of the model_match calls
MatchWords ==
    { <<"c", "g">>,
      <<"1", "6", "0">>,
      <<"x", "r", "e">>,
      <<"x">>,
      <<"o", "n", "i", "x">>,
      <<"c", "o", "r", "o", "l", "l", "a", "x", "e", "l">>,
      <<"C", "G", "1", "6", "0">> }

MatchFields ==
    { <<"C", "G", " ", "1", "6", "0">>,
      <<"X", "R", "E", "-", "3", "0", "0">>,
      <<"O", "n", "i", "x", " ", "L", "T">>,
      <<"C", "o", "r", "o", "l", "l", "a", " ", "X", "E", "i">>,
      <<"C", "G", "1", "6", "0">>,
      <<>> }

Kinds == { JStr(<<"m", "o", "t", "o">>), JStr(<<"c", "a", "r", "r", "o">>) }

WordLists == UNION {[1..n -> MatchWords] : n \in 0..MaxWords}

ModelMatchCalls ==
    {[fn |-> "model_match", query_words |-> ws, field_content |-> f, vehicle_type |-> k] :
        ws \in WordLists, f \in MatchFields, k \in Kinds}

\* the query words and field texts of the fuzzy_match calls
FuzzyWords ==
    { <<"c", "g">>,
      <<"x", "r", "e">>,
      <<"h", "a", "r", "l", "y">>,
      <<"h", "a", "r", "l", "e", "y", "d", "a", "v", "i", "d", "s", "o", "n", "e", "l", "e", "c", "t", "r", "a", "g", "l", "d", "e">> }

FuzzyFields ==
    { <<"C", "G", " ", "1", "6", "0">>,
      <<"H", "a", "r", "l", "e", "y", "-", "D", "a", "v", "i", "d", "s", "o", "n", " ", "E", "l", "e", "c", "t", "r", "a", " ", "G", "l", "i", "d", "e">>,
      <<>> }

FuzzyMatchCalls ==
    {[fn |-> "fuzzy_match", query_words |-> ws, field_content |-> f, vehicle_type |-> k] :
        ws \in UNION {[1..n -> FuzzyWords] : n \in 0..MaxWords}, f \in FuzzyFields, k \in Kinds}

ExactMatchCalls ==
    {[fn |-> "exact_match", query_words |-> ws, field_content |-> f] :
        ws \in WordLists, f \in MatchFields}

\* the values given to the converters
ConverterInputs ==
    { JNull,
      JAbsent,
      JNum(0),
      JNum(7),
      JNum(2020),
      JNum(50000),
      JStr(<<>>),
      JStr(<<"0">>),
      JStr(<<"0", "0">>),
      JStr(<<"0", ",", "0", "0">>),
      JStr(<<"a", "b", "c">>),
      JStr(<<"2", "0", "1", "9", "\n">>),
      JStr(<<"3", "0", ".", "0", "0", "0">>),
      JStr(<<"R", "$", " ", "6", "0", ".", "0", "0", "0", ",", "0", "0">>),
      JStr(<<"1", ",", "6", "L">>),
      JStr(<<"1", "6", "0">>) }

ConverterCalls ==
    {[fn |-> f, x |-> x] :
        f \in {"convert_price", "convert_year", "convert_km", "convert_cc"},
        x \in ConverterInputs}

\* the characters of the texts given to the normalisations
TextAlphabet == {"a", "B", "e'", "E'", "1", "-", "endash", " ", "\t", "!"}

Texts == UNION {[1..n -> TextAlphabet] : n \in 0..MaxTextLen}

NormalizeCalls ==
    {[fn |-> f, text |-> x] :
        f \in {"normalize_text", "normalizar_texto"},
        x \in {JNull} \cup {JStr(s) : s \in Texts}}

\* the filters of the apply_filters calls
FilterChoices ==
    { [k |-> "tipo", v |-> <<"c", "a", "r", "r", "o">>],
      [k |-> "tipo", v |-> <<"m", "o", "t", "o", ",", "c", "a", "r", "r", "o">>],
      [k |-> "modelo", v |-> <<"o", "n", "i", "x">>],
      [k |-> "modelo", v |-> <<"o", "n", "i", "x", ",", "x", "r", "e">>],
      [k |-> "modelo", v |-> <<"x">>],
      [k |-> "categoria", v |-> <<"S", "U", "V", ",", "S", "e", "d">>],
      [k |-> "categoria", v |-> <<"v", "a", "n">>],
      [k |-> "marca", v |-> <<"G", "M", ",", "V", "W">>],
      [k |-> "cor", v |-> <<"a", "z", "u", "l", ",", "b", "e", "g", "e">>],
      [k |-> "cor", v |-> <<>>],
      [k |-> "portas", v |-> <<"2", ",", "4">>],
      [k |-> "opcionais", v |-> <<"a", "b", "s">>],
      [k |-> "cambio", v |-> <<"A", "T", ",", " ", "M", "T">>] }

\* filters dicts of at most MaxParams entries with distinct keys, in any order
FilterDicts ==
    {fs \in UNION {[1..n -> FilterChoices] : n \in 0..MaxParams} :
        \A i, j \in 1..Len(fs) : i # j => fs[i].k # fs[j].k}

ApplyFiltersCalls ==
    {[fn |-> "apply_filters", vehicles |-> vs, filters |-> fs] :
        vs \in {[j \in 1..n |-> Vehicle(j)] : n \in {0, MaxVehicles}}, fs \in FilterDicts}

Calls == ModelMatchCalls \cup FuzzyMatchCalls \cup ExactMatchCalls \cup ConverterCalls \cup NormalizeCalls \cup ApplyFiltersCalls

\* the engine is called directly: no request is in progress
CallInit ==
    /\ vehicles = <<>>
    /\ query = [k \in ParamNames |-> <<>>]
    /\ pc = "call"
    /\ filters = <<>>
    /\ valormax = <<>>
    /\ anomax = <<>>
    /\ kmmax = <<>>
    /\ ccmax = <<>>
    /\ excluded_ids = {}
    /\ current_filters = <<>>
    /\ current_anomax = <<>>
    /\ current_kmmax = <<>>
    /\ removed_filters = <<>>
    /\ step = 0
    /\ result = NoResult
    /\ call \in Calls
    /\ ret = NotReturned
    /\ NotServing

\* the call returns value
Return(value) ==
    /\ pc = "call"
    /\ pc' = "returned"
    /\ ret' = Returns(value)
    /\ UNCHANGED <<vehicles, query, filters, valormax, anomax, kmmax, ccmax, excluded_ids,
                   current_filters, current_anomax, current_kmmax, removed_filters, step,
                   result, call, serving>>

CallModelMatch ==
    /\ call.fn = "model_match"
    /\ Return(model_match(call.query_words, call.field_content, call.vehicle_type))

CallFuzzyMatch ==
    /\ call.fn = "fuzzy_match"
    /\ Return(fuzzy_match(call.query_words, call.field_content, call.vehicle_type))

CallExactMatch ==
    /\ call.fn = "exact_match"
    /\ Return(exact_match(call.query_words, call.field_content))

CallConvertPrice == call.fn = "convert_price" /\ Return(convert_price(call.x))

CallConvertYear == call.fn = "convert_year" /\ Return(convert_year(call.x))

CallConvertKm == call.fn = "convert_km" /\ Return(convert_km(call.x))

CallConvertCc == call.fn = "convert_cc" /\ Return(convert_cc(call.x))

\* "if not text: return ''", then the normalisation of str(text)
CallNormalizeText ==
    /\ call.fn = "normalize_text"
    /\ Return(IF Truthy(call.text) THEN normalize_text(PyStr(call.text)) ELSE <<>>)

CallNormalizarTexto ==
    /\ call.fn = "normalizar_texto"
    /\ Return(IF Truthy(call.text) THEN normalizar_texto(PyStr(call.text)) ELSE <<>>)

CallApplyFilters ==
    /\ call.fn = "apply_filters"
    /\ Return(apply_filters(call.vehicles, call.filters))

CallNext ==
    \/ CallModelMatch
    \/ CallFuzzyMatch
    \/ CallExactMatch
    \/ CallConvertPrice
    \/ CallConvertYear
    \/ CallConvertKm
    \/ CallConvertCc
    \/ CallNormalizeText
    \/ CallNormalizarTexto
    \/ CallApplyFilters

CallSpec == CallInit /\ [][CallNext]_vars


\* ------------------------------------------------------------------------
\* search_with_fallback called directly
\* ------------------------------------------------------------------------

\* the filters of the direct calls: the caller may pass a key with an empty value
DirectFilterChoices ==
    { [k |-> "cor", v |-> <<>>],
      [k |-> "cor", v |-> <<"b", "e", "g", "e">>],
      [k |-> "modelo", v |-> <<"o", "n", "i", "x">>],
      [k |-> "modelo", v |-> <<"k", "a">>],
      [k |-> "modelo", v |-> <<>>],
      [k |-> "marca", v |-> <<"G", "M">>],
      [k |-> "marca", v |-> <<"F", "i", "a", "t">>],
      [k |-> "categoria", v |-> <<>>],
      [k |-> "categoria", v |-> <<"v", "a", "n">>],
      [k |-> "portas", v |-> <<"4">>] }

DirectFilterDicts ==
    {fs \in UNION {[1..n -> DirectFilterChoices] : n \in 0..MaxParams} :
        \A i, j \in 1..Len(fs) : i # j => fs[i].k # fs[j].k}

\* the anomax and kmmax arguments, as get_max_value_from_range_param returns them
DirectCeilings ==
    { [anomax |-> <<>>, kmmax |-> <<>>],
      [anomax |-> <<"2", "0", "1", "7">>, kmmax |-> <<>>],
      [anomax |-> <<>>, kmmax |-> <<"5">>],
      [anomax |-> <<"x">>, kmmax |-> <<>>],
      [anomax |-> <<>>, kmmax |-> <<"5", "0", "0", "0", "0", ".", "0">>],
      [anomax |-> <<"2", "0", "2", "0">>, kmmax |-> <<"5">>],
      [anomax |-> <<"2", "0", "1", "7">>, kmmax |-> <<"3", "0", "0", "0", "0">>] }

\* the arguments of a direct call: the control is at the first attempt
DirectInit ==
    /\ vehicles \in {[j \in 1..n |-> Vehicle(j)] : n \in {1, MaxVehicles}}
    /\ query = [k \in ParamNames |-> <<>>]
    /\ pc = "search"
    /\ filters \in DirectFilterDicts
    /\ valormax = <<>>
    /\ \E c \in DirectCeilings : anomax = c.anomax /\ kmmax = c.kmmax
    /\ ccmax = <<>>
    /\ excluded_ids \in {{}, {<<"1">>}}
    /\ current_filters = <<>>
    /\ current_anomax = <<>>
    /\ current_kmmax = <<>>
    /\ removed_filters = <<>>
    /\ step = 0
    /\ result = NoResult
    /\ call = NoCall
    /\ ret = NotReturned
    /\ NotServing

DirectNext ==
    \/ FirstAttempt
    \/ StepKmMaxRaise
    \/ StepKmMaxRelax
    \/ StepKmMaxSkip
    \/ StepAnoMaxRaise
    \/ StepAnoMaxRelax
    \/ StepAnoMaxSkip
    \/ StepModeloSubstitute
    \/ StepModeloDrop
    \/ StepRemoveFilter
    \/ StepInactive
    \/ Exhausted

DirectSpec == DirectInit /\ [][DirectNext]_vars


\* ------------------------------------------------------------------------
\* search_with_fallback as a function of its arguments
\* ------------------------------------------------------------------------

\* int(current_kmmax) or int(current_anomax) raised ValueError
SearchRaised ==
    [kind |-> "raised", vehicles |-> <<>>, total_found |-> 0, fallback_info |-> NoInfo,
     removed_filters |-> <<>>]

\* the state of the loop after one entry: the filters and ceilings still in force, what
\* has been removed, and whether the entry raised, relaxed something or did nothing
LoopState(kind, cf, amax, kmax, removed) ==
    [kind |-> kind, current_filters |-> cf, current_anomax |-> amax, current_kmmax |-> kmax,
     removed_filters |-> removed]

\* one entry of FALLBACK_PRIORITY (lines 512-579) on the vehicles vs
AfterEntry(vs, entry, cf, amax, kmax, removed) ==
    LET tested == apply_filters(vs, cf)
        same == LoopState("continue", cf, amax, kmax, removed)
        raised == LoopState("raise", cf, amax, kmax, removed)
    IN  IF entry = "KmMax" /\ kmax # <<>>
        THEN IF ~ParseInt(kmax).ok
             THEN IF \E n \in 1..Len(tested) : convert_km(Get(tested[n], "km")).ok
                  THEN raised
                  ELSE LoopState("relaxed", cf, amax, <<>>, Append(removed, Removed("KmMax")))
             ELSE IF \E n \in 1..Len(tested) : WithinKm(tested[n], ParseInt(kmax).val)
                  THEN same
                  ELSE LoopState("relaxed", cf, amax, <<>>, Append(removed, Removed("KmMax")))
        ELSE IF entry = "AnoMax" /\ amax # <<>>
        THEN IF ~ParseInt(amax).ok
             THEN IF \E n \in 1..Len(tested) : convert_year(Get(tested[n], "ano")).ok
                  THEN raised
                  ELSE LoopState("relaxed", cf, <<>>, kmax, Append(removed, Removed("AnoMax")))
             ELSE IF \E n \in 1..Len(tested) : WithinYear(tested[n], ParseInt(amax).val)
                  THEN same
                  ELSE LoopState("relaxed", cf, <<>>, kmax, Append(removed, Removed("AnoMax")))
        ELSE IF entry = "modelo" /\ HasKey(cf, "modelo")
        THEN LET model_value == ValueOf(cf, "modelo")
                 mapped_category == find_category_by_model(model_value)
                 categoria_active == HasKey(cf, "categoria") /\ ValueOf(cf, "categoria") # <<>>
             IN  IF ~categoria_active /\ mapped_category # <<>>
                 THEN LoopState("relaxed",
                                SetKey(Without(cf, "modelo"), "categoria", mapped_category),
                                amax, kmax,
                                Append(removed, RemovedModelo(model_value, mapped_category)))
                 ELSE LoopState("relaxed", Without(cf, "modelo"), amax, kmax,
                                Append(removed, RemovedModelo(model_value, <<>>)))
        ELSE IF HasKey(cf, entry)
        THEN LoopState("relaxed", Without(cf, entry), amax, kmax,
                       Append(removed, Removed(entry)))
        ELSE same

\* the re-test of lines 581-591 in the loop state s; a holds the arguments that the loop
\* leaves alone
Refiltered(a, s) ==
    NotExcluded(apply_range_filters(apply_filters(a.vehicles, s.current_filters),
                                    a.valormax, s.current_anomax, s.current_kmmax, a.ccmax),
                a.excluded_ids)

\* the loop ends in the state s: int() raised, or the re-test found vehicles
LoopEnds(a, s) ==
    \/ s.kind = "raise"
    \/ s.kind = "relaxed" /\ Refiltered(a, s) # <<>>

\* what search_with_fallback returns when the loop ends in the state s (lines 593-598)
LoopResult(a, s) ==
    IF s.kind = "raise" THEN SearchRaised
    ELSE SearchResult(sort_vehicles(Refiltered(a, s), a.valormax, s.current_anomax,
                                    s.current_kmmax, a.ccmax),
                      Info(s.removed_filters), s.removed_filters)

\* the loop state after entry i, reached in the state s
EntryDone(a, s, i) ==
    AfterEntry(a.vehicles, FALLBACK_PRIORITY[i], s.current_filters, s.current_anomax,
               s.current_kmmax, s.removed_filters)

\* the for loop over FALLBACK_PRIORITY from entry i on (lines 511-606)
RECURSIVE FallbackFrom(_, _, _)
FallbackFrom(a, s, i) ==
    IF i > Len(FALLBACK_PRIORITY)
    THEN [kind |-> "search", vehicles |-> <<>>, total_found |-> 0, fallback_info |-> NoInfo,
          removed_filters |-> s.removed_filters]
    ELSE IF LoopEnds(a, EntryDone(a, s, i))
    THEN LoopResult(a, EntryDone(a, s, i))
    ELSE FallbackFrom(a, EntryDone(a, s, i), i + 1)

\* search_with_fallback(vehicles, filters, valormax, anomax, kmmax, ccmax, excluded_ids)
search_with_fallback(vs, fs, vmax, amax, kmax, cmax, excl) ==
    LET filtered_vehicles ==
            NotExcluded(apply_range_filters(apply_filters(vs, fs), vmax, amax, kmax, cmax), excl)
    IN  IF filtered_vehicles # <<>>
        THEN SearchResult(sort_vehicles(filtered_vehicles, vmax, amax, kmax, cmax), NoInfo, <<>>)
        ELSE FallbackFrom([vehicles |-> vs, valormax |-> vmax, ccmax |-> cmax,
                           excluded_ids |-> excl],
                          LoopState("continue", fs, amax, kmax, <<>>), 1)

\* ------------------------------------------------------------------------
\* The server: get_data calls on worker threads, fetch_all on the scheduler thread
\* ------------------------------------------------------------------------

\* the "fotos" values of the feed: a list of URLs, a nested list, an empty list, no key;
\* items holds the URLs of the list, or of the first inner list of a nested one
Fotos ==
    << [t |-> "strs", items |-> <<"f1", "f2">>],
       [t |-> "lists", items |-> <<"g1", "g2">>],
       [t |-> "strs", items |-> <<>>],
       [t |-> "absent", items |-> <<>>] >>

\* a vehicle of the feed, with its photos
StoredVehicle(i) == Vehicle(i) @@ [fotos |-> Fotos[((i - 1) % Len(Fotos)) + 1]]

\* the inventories that process_url yields for fetch_all
Feeds == {[j \in 1..n |-> StoredVehicle(j)] : n \in {2, 3}}

\* json.load(f): a text that json.dump has not finished raises JSONDecodeError
json_load(file) ==
    IF file.closed THEN [ok |-> TRUE, veiculos |-> file.veiculos]
    ELSE [ok |-> FALSE, veiculos |-> <<>>]

\* the two requests in progress
RequestIds == {"r1", "r2"}

\* query strings of the requests: none, simples=1, opcionais=abs&simples=1, categoria=van
ServeQueries ==
    {[query |-> [k \in ParamNames |-> IF k = p.k THEN p.v ELSE <<>>], simples |-> p.simples] :
        p \in {[k |-> "none", v |-> <<>>, simples |-> <<>>],
               [k |-> "none", v |-> <<>>, simples |-> <<"1">>],
               [k |-> "opcionais", v |-> <<"a", "b", "s">>, simples |-> <<"1">>],
               [k |-> "categoria", v |-> <<"v", "a", "n">>, simples |-> <<>>]}}

\* a request that has not read data.json yet
NewRequest(q) ==
    [pc |-> "start", query |-> q.query, simples |-> q.simples, loaded |-> <<>>,
     vehicles |-> <<>>, result |-> NoResult, response |-> [status |-> 0]]

\* the dict that json.load creates for the i-th vehicle of request r in one shared cache
AddressOf_sharedCache(r, i) == <<"cache", i>>

\* the dict that json.load creates for the i-th vehicle of request r: a new object per call
AddressOf(r, i) == <<r, i>>

\* the server is up: data.json holds the feed of the startup fetch (line 674)
ServeInit ==
    /\ vehicles = <<>>
    /\ query = [k \in ParamNames |-> <<>>]
    /\ pc = "serve"
    /\ filters = <<>>
    /\ valormax = <<>>
    /\ anomax = <<>>
    /\ kmmax = <<>>
    /\ ccmax = <<>>
    /\ excluded_ids = {}
    /\ current_filters = <<>>
    /\ current_anomax = <<>>
    /\ current_kmmax = <<>>
    /\ removed_filters = <<>>
    /\ step = 0
    /\ result = NoResult
    /\ call = NoCall
    /\ ret = NotReturned
    /\ data_json \in {File(feed, TRUE) : feed \in Feeds}
    /\ fetcher = [pc |-> "idle", result |-> <<>>]
    /\ requests \in [RequestIds -> {NewRequest(q) : q \in ServeQueries}]
    /\ heap = <<>>

\* the variables of the single request and of the direct call
NotServed ==
    UNCHANGED <<vehicles, query, pc, filters, valormax, anomax, kmmax, ccmax, excluded_ids,
                current_filters, current_anomax, current_kmmax, removed_filters, step,
                result, call, ret>>

\* fetch_all opens data.json for writing: the file is truncated (xml_fetcher.py line 1095)
FetchOpen ==
    /\ fetcher.pc = "idle"
    /\ \E all_vehicles \in Feeds :
           fetcher' = [pc |-> "writing", result |-> all_vehicles]
    /\ data_json' = File(<<>>, FALSE)
    /\ UNCHANGED <<requests, heap>>
    /\ NotServed

\* json.dump writes the next vehicle of the list (line 1096)
FetchWrite ==
    /\ fetcher.pc = "writing"
    /\ Len(data_json.veiculos) < Len(fetcher.result)
    /\ data_json' = File(Append(data_json.veiculos,
                                fetcher.result[Len(data_json.veiculos) + 1]), FALSE)
    /\ UNCHANGED <<fetcher, requests, heap>>
    /\ NotServed

\* json.dump writes the end of the text and the file is closed (lines 1095-1096)
FetchClose ==
    /\ fetcher.pc = "writing"
    /\ Len(data_json.veiculos) = Len(fetcher.result)
    /\ data_json' = File(data_json.veiculos, TRUE)
    /\ fetcher' = [pc |-> "idle", result |-> <<>>]
    /\ UNCHANGED <<requests, heap>>
    /\ NotServed

\* the values of the dicts at the addresses as
Deref(as) == [i \in 1..Len(as) |-> heap[as[i]]]

\* request r reads data.json (lines 805-832)
Load(r) ==
    /\ requests[r].pc = "start"
    /\ LET data == json_load(data_json)
           as == [i \in 1..Len(data.veiculos) |-> AddressOf(r, i)]
       IN  IF data.ok
           THEN /\ requests' = [requests EXCEPT ![r].pc = "loaded",
                                                ![r].loaded = data.veiculos,
                                                ![r].vehicles = as]
                /\ heap' = [a \in DOMAIN heap \cup {as[i] : i \in 1..Len(as)} |->
                               IF \E i \in 1..Len(as) : as[i] = a
                               THEN data.veiculos[CHOOSE i \in 1..Len(as) : as[i] = a]
                               ELSE heap[a]]
           ELSE /\ requests' = [requests EXCEPT ![r].pc = "responded",
                                                ![r].response = [status |-> 500]]
                /\ UNCHANGED heap
    /\ UNCHANGED <<data_json, fetcher>>
    /\ NotServed

\* the whole stock by descending price, less the excluded ids (lines 914-925)
AllStock(vs, excl) ==
    LET all_vehicles == NotExcluded(vs, excl)
        sorted_vehicles == Sorted(all_vehicles,
                                  [i \in 1..Len(all_vehicles) |->
                                     Key(OrZero(convert_price(Get(all_vehicles[i], "preco"))))],
                                  TRUE)
    IN  [kind |-> "all_stock", vehicles |-> sorted_vehicles,
         total_found |-> Len(sorted_vehicles), fallback_info |-> NoInfo,
         removed_filters |-> <<>>]

\* what get_data finds for the query q among the dicts vs (lines 835-958)
Found(q, vs) ==
    IF HasSearchFilters(q)
    THEN search_with_fallback(vs, RequestFilters(q),
                              get_max_value_from_range_param(q["ValorMax"]),
                              get_max_value_from_range_param(q["AnoMax"]),
                              get_max_value_from_range_param(q["KmMax"]),
                              get_max_value_from_range_param(q["CcMax"]),
                              RequestExcluded(q))
    ELSE AllStock(vs, RequestExcluded(q))

\* the request record of r once the search has given found: an exception of the search
\* ends the request with status 500, else the result lists the dicts found
Searched(r, found) ==
    IF found.kind = "raised"
    THEN [requests EXCEPT ![r].pc = "responded", ![r].response = [status |-> 500]]
    ELSE [requests EXCEPT
             ![r].pc = "searched",
             ![r].result = [found EXCEPT
                 !.vehicles = [i \in 1..Len(found.vehicles) |-> found.vehicles[i].addr]]]

\* the dicts at the addresses as, each with its address
Objects(as) == [i \in 1..Len(as) |-> heap[as[i]] @@ [addr |-> as[i]]]

\* request r searches its vehicles; the result lists some of the same dicts
Search(r) ==
    /\ requests[r].pc = "loaded"
    /\ requests' = Searched(r, Found(requests[r].query, Objects(requests[r].vehicles)))
    /\ UNCHANGED <<data_json, fetcher, heap>>
    /\ NotServed

\* vehicle["fotos"] of the simples mode (lines 927-941, 960-974)
FirstPhoto(vehicle) ==
    [vehicle EXCEPT !.fotos =
        IF vehicle.fotos.t \in {"strs", "lists"} /\ vehicle.fotos.items # <<>>
        THEN [t |-> vehicle.fotos.t, items |-> <<vehicle.fotos.items[1]>>]
        ELSE [t |-> "strs", items |-> <<>>]]

\* del vehicle["opcionais"] (lines 943-947, 976-980)
WithoutOpcionais(vehicle) == [vehicle EXCEPT !.opcionais = JAbsent]

\* request r keeps the first photo of each vehicle of its result when simples=1
ShapeSimples(r) ==
    /\ requests[r].pc = "searched"
    /\ requests' = [requests EXCEPT ![r].pc = "simplified"]
    /\ heap' = [a \in DOMAIN heap |->
                   IF /\ requests[r].simples = <<"1">>
                      /\ \E i \in 1..Len(requests[r].result.vehicles) :
                             requests[r].result.vehicles[i] = a
                   THEN FirstPhoto(heap[a])
                   ELSE heap[a]]
    /\ UNCHANGED <<data_json, fetcher>>
    /\ NotServed

\* request r deletes the opcionais of the vehicles of its result unless it filters on them
RemoveOpcionais(r) ==
    /\ requests[r].pc = "simplified"
    /\ requests' = [requests EXCEPT ![r].pc = "shaped"]
    /\ heap' = [a \in DOMAIN heap |->
                   IF /\ ~HasKey(RequestFilters(requests[r].query), "opcionais")
                      /\ \E i \in 1..Len(requests[r].result.vehicles) :
                             requests[r].result.vehicles[i] = a
                   THEN WithoutOpcionais(heap[a])
                   ELSE heap[a]]
    /\ UNCHANGED <<data_json, fetcher>>
    /\ NotServed

\* the JSON body of the response (lines 949-953, 982-999)
ResponseData(found, resultados) ==
    [status |-> 200, resultados |-> resultados, total_encontrado |-> found.total_found,
     fallback_info |-> found.fallback_info]

\* request r serialises its result
Respond(r) ==
    /\ requests[r].pc = "shaped"
    /\ requests' = [requests EXCEPT
           ![r].pc = "responded",
           ![r].response = ResponseData(requests[r].result, Deref(requests[r].result.vehicles))]
    /\ UNCHANGED <<data_json, fetcher, heap>>
    /\ NotServed

ServeNext ==
    \/ FetchOpen
    \/ FetchWrite
    \/ FetchClose
    \/ \E r \in RequestIds : Load(r)
    \/ \E r \in RequestIds : Search(r)
    \/ \E r \in RequestIds : ShapeSimples(r)
    \/ \E r \in RequestIds : RemoveOpcionais(r)
    \/ \E r \in RequestIds : Respond(r)

ServeSpec == ServeInit /\ [][ServeNext]_vars

\* ------------------------------------------------------------------------
\* Properties of search_with_fallback
\* ------------------------------------------------------------------------

\* search_with_fallback has returned a SearchResult
Returned == pc = "done" /\ result.kind = "search"

\* the control has passed the first attempt of search_with_fallback
AfterFirstAttempt == pc \in {"loop", "raised"} \/ Returned

IdOf(v) == PyStr(Get(v, "id"))

YearOf(v) == convert_year(Get(v, "ano"))

KmOf(v) == convert_km(Get(v, "km"))

PriceOf(v) == convert_price(Get(v, "preco"))

CcOf(v) == convert_cc(Get(v, "cilindrada"))

\* a ceiling given as an integer
IsIntCeiling(p) == p # <<>> /\ ParseInt(p).ok

\* v passes every named filter of fs and the integer ceilings amax and kmax
Matches(v, fs, amax, kmax) ==
    /\ \A i \in 1..Len(fs) : fs[i].v # <<>> => VehiclePasses(v, fs[i].k, fs[i].v)
    /\ IsIntCeiling(amax) => (YearOf(v).ok /\ YearOf(v).val <= ParseInt(amax).val)
    /\ IsIntCeiling(kmax) => (KmOf(v).ok /\ KmOf(v).val <= ParseInt(kmax).val)

\* the positions of the inventory that pass fs, amax, kmax and the exclusion
Matching(fs, amax, kmax) ==
    {i \in 1..Len(vehicles) :
        Matches(vehicles[i], fs, amax, kmax) /\ IdOf(vehicles[i]) \notin excluded_ids}

\* the constraint set in force when the search returned
FinalFilters == IF step = 0 THEN filters ELSE current_filters

FinalAnoMax == IF step = 0 THEN anomax ELSE current_anomax

FinalKmMax == IF step = 0 THEN kmmax ELSE current_kmmax

RemovedHas(removed, name) == \E i \in 1..Len(removed) : removed[i].name = name

\* C1: when at least one vehicle of the inventory passes the original named
\* filters, the anomax/kmmax ceilings and the ID exclusion, the search returns
\* from its first attempt: the fallback loop is never entered, the result is
\* not empty, removed_filters is empty and fallback_info is empty.
C1_SatisfiableQueryIsNeverRelaxed ==
    (AfterFirstAttempt /\ Matching(filters, anomax, kmmax) # {})
        => /\ Returned
           /\ step = 0
           /\ removed_filters = <<>>
           /\ result.vehicles # <<>>
           /\ result.removed_filters = <<>>
           /\ ~result.fallback_info.present

\* a satisfiable query with a named filter and an integer odometer ceiling
C1_Witness ==
    /\ Returned
    /\ filters # <<>>
    /\ IsIntCeiling(kmmax)
    /\ Cardinality(Matching(filters, anomax, kmmax)) >= 2
    /\ Cardinality(Matching(filters, anomax, kmmax)) < Len(vehicles)

\* C2: the categoria filter is never relaxed: no entry of removed_filters is
\* 'categoria', and a query whose only constraint is a categoria that no
\* vehicle matches ends with an empty result, total_found 0 and an empty
\* removed_filters.
C2_CategoriaIsNeverRemoved ==
    /\ ~RemovedHas(removed_filters, "categoria")
    /\ (/\ Returned
        /\ Len(filters) = 1 /\ filters[1].k = "categoria"
        /\ anomax = <<>> /\ kmmax = <<>>
        /\ Matching(filters, anomax, kmmax) = {})
           => /\ result.vehicles = <<>>
              /\ result.total_found = 0
              /\ result.removed_filters = <<>>

\* C3: every SearchResult holds at most 6 vehicles, its total_found is the
\* number of inventory vehicles that pass the constraint set in force at the
\* return and are not excluded, and len(vehicles) = min(6, total_found).
C3_PageAndTotal ==
    Returned
        => /\ Len(result.vehicles) <= 6
           /\ result.total_found = Cardinality(Matching(FinalFilters, FinalAnoMax, FinalKmMax))
           /\ Len(result.vehicles) = (IF result.total_found < 6 THEN result.total_found ELSE 6)

\* a result truncated to 6 of 7 matches, returned after a relaxation
C3_Witness ==
    /\ Returned
    /\ result.removed_filters # <<>>
    /\ result.total_found = 7
    /\ Len(result.vehicles) = 6

\* |price - X| of a vehicle whose price parses
PriceDistance(v) == Abs(PriceOf(v).val - ParseFloat(valormax).val)

\* C4: a numeric valormax X excludes no vehicle: total_found counts every
\* vehicle that passes the other constraints whatever its price, the result is
\* not empty (and nothing is relaxed) as soon as one vehicle passes them, and
\* with no ccmax the returned vehicles whose price parses come in ascending
\* order of |price - X|.
C4_ValorMaxOnlyRanks ==
    (Returned /\ valormax # <<>> /\ ParseFloat(valormax).ok)
        => /\ result.total_found = Cardinality(Matching(FinalFilters, FinalAnoMax, FinalKmMax))
           /\ Matching(filters, anomax, kmmax) # {}
                 => (result.vehicles # <<>> /\ result.removed_filters = <<>>)
           /\ ccmax = <<>>
                 => \A i, j \in 1..Len(result.vehicles) :
                        (i < j /\ PriceOf(result.vehicles[i]).ok /\ PriceOf(result.vehicles[j]).ok)
                            => PriceDistance(result.vehicles[i]) <= PriceDistance(result.vehicles[j])

\* every price of the inventory is above X, and the result still ranks vehicles
C4_Witness ==
    /\ Returned
    /\ valormax # <<>> /\ ParseFloat(valormax).ok
    /\ ccmax = <<>>
    /\ \A i \in 1..Len(vehicles) :
           PriceOf(vehicles[i]).ok => PriceOf(vehicles[i]).val > ParseFloat(valormax).val
    /\ \E i, j \in 1..Len(result.vehicles) :
           /\ i < j
           /\ PriceOf(result.vehicles[i]).ok /\ PriceOf(result.vehicles[j]).ok
           /\ PriceDistance(result.vehicles[i]) < PriceDistance(result.vehicles[j])

\* C5: with an integer anomax (kmmax), every vehicle of a result whose
\* removed_filters has no 'AnoMax' ('KmMax') has a year (odometer) that parses
\* and is at most the ceiling; so vehicles are returned for a ceiling that no
\* vehicle meets only once the ceiling is recorded as removed.
C5_CeilingsAreHard ==
    Returned
        => /\ (IsIntCeiling(anomax) /\ ~RemovedHas(result.removed_filters, "AnoMax"))
                 => \A i \in 1..Len(result.vehicles) :
                        /\ YearOf(result.vehicles[i]).ok
                        /\ YearOf(result.vehicles[i]).val <= ParseInt(anomax).val
           /\ (IsIntCeiling(kmmax) /\ ~RemovedHas(result.removed_filters, "KmMax"))
                 => \A i \in 1..Len(result.vehicles) :
                        /\ KmOf(result.vehicles[i]).ok
                        /\ KmOf(result.vehicles[i]).val <= ParseInt(kmmax).val

\* a year ceiling in force that keeps some vehicles and rejects others, among
\* them one whose year does not parse
C5_Witness ==
    /\ Returned
    /\ IsIntCeiling(anomax)
    /\ ~RemovedHas(result.removed_filters, "AnoMax")
    /\ result.vehicles # <<>>
    /\ \E i \in 1..Len(vehicles) : ~YearOf(vehicles[i]).ok
    /\ \E i \in 1..Len(vehicles) : YearOf(vehicles[i]).ok /\ YearOf(vehicles[i]).val > ParseInt(anomax).val

\* the non-empty comma-separated alternatives of a range parameter
CsvPieces(p) == SelectSeq(SplitOn(p, ","), LAMBDA x : Strip(x) # <<>>)

\* a comma-separated list of integers such as "2018,2020"
IsIntegerList(p) ==
    /\ \E i \in 1..Len(p) : p[i] = ","
    /\ Len(CsvPieces(p)) >= 1
    /\ \A i \in 1..Len(CsvPieces(p)) : ParseInt(Strip(CsvPieces(p)[i])).ok

\* its largest alternative
ListMax(p) == MaxOf([i \in 1..Len(CsvPieces(p)) |-> ParseInt(Strip(CsvPieces(p)[i])).val])

\* C6: a range parameter given as a comma-separated list of numbers behaves as
\* its largest alternative: AnoMax='2018,2020' is the ceiling 2020 and
\* KmMax='30000,50000' the ceiling 50000, so the search does not raise and,
\* unless the ceiling is recorded as removed, returns only vehicles within it.
C6_ListCeilingIsItsMaximum ==
    /\ (IsIntegerList(query["AnoMax"]) \/ IsIntegerList(query["KmMax"])) => pc # "raised"
    /\ (Returned /\ IsIntegerList(query["AnoMax"]) /\ ~RemovedHas(result.removed_filters, "AnoMax"))
          => \A i \in 1..Len(result.vehicles) :
                 /\ YearOf(result.vehicles[i]).ok
                 /\ YearOf(result.vehicles[i]).val <= ListMax(query["AnoMax"])
    /\ (Returned /\ IsIntegerList(query["KmMax"]) /\ ~RemovedHas(result.removed_filters, "KmMax"))
          => \A i \in 1..Len(result.vehicles) :
                 /\ KmOf(result.vehicles[i]).ok
                 /\ KmOf(result.vehicles[i]).val <= ListMax(query["KmMax"])

\* a range parameter that is no number and no list
IsNonNumeric(p) == p # <<>> /\ ~(\E i \in 1..Len(p) : p[i] = ",") /\ ~ParseFloat(p).ok

\* C7: a non-numeric range parameter such as KmMax='abc' is treated as absent:
\* the search raises on no path, and a result of the first attempt holds the
\* vehicles, in the order, of the same search without the parameter.
C7_NonNumericCeilingIsAbsent ==
    /\ (IsNonNumeric(query["KmMax"]) \/ IsNonNumeric(query["AnoMax"])
           \/ IsNonNumeric(query["ValorMax"]) \/ IsNonNumeric(query["CcMax"]))
          => pc # "raised"
    /\ (Returned /\ step = 0 /\ IsNonNumeric(query["KmMax"]))
          => result.vehicles
                = SearchResult(sort_vehicles(Attempt(filters, anomax, <<>>),
                                             valormax, anomax, <<>>, ccmax),
                               NoInfo, <<>>).vehicles
    /\ (Returned /\ step = 0 /\ IsNonNumeric(query["AnoMax"]))
          => result.vehicles
                = SearchResult(sort_vehicles(Attempt(filters, <<>>, kmmax),
                                             valormax, <<>>, kmmax, ccmax),
                               NoInfo, <<>>).vehicles

\* C8: search_with_fallback terminates: the loop visits each of the 11 entries
\* of FALLBACK_PRIORITY at most once, at most 11 relaxations are recorded, and
\* the search ends in success (a result with vehicles) or in exhaustion (an
\* empty result with total_found 0).
C8_EndsInSuccessOrExhaustion ==
    /\ step \in 0..(Len(FALLBACK_PRIORITY) + 1)
    /\ Len(removed_filters) <= 11
    /\ Len(removed_filters) <= step
    /\ pc \in {"request", "search", "loop", "done"}
    /\ Returned => \/ result.vehicles # <<>> /\ result.total_found > 0
                   \/ result.vehicles = <<>> /\ result.total_found = 0

\* C9: no vehicle whose str(id) is in excluded_ids appears in a SearchResult or
\* is counted in its total_found, at the first attempt and after relaxations.
C9_ExcludedNeverReturned ==
    Returned
        => /\ \A i \in 1..Len(result.vehicles) : IdOf(result.vehicles[i]) \notin excluded_ids
           /\ result.total_found
                 <= Cardinality({i \in 1..Len(vehicles) : IdOf(vehicles[i]) \notin excluded_ids})
           /\ result.total_found
                 = Cardinality({i \in 1..Len(vehicles) :
                                   /\ Matches(vehicles[i], FinalFilters, FinalAnoMax, FinalKmMax)
                                   /\ IdOf(vehicles[i]) \notin excluded_ids})

\* after a relaxation, a vehicle that passes the relaxed constraints is kept
\* out of the result by the exclusion alone
C9_Witness ==
    /\ Returned
    /\ result.removed_filters # <<>>
    /\ result.vehicles # <<>>
    /\ \E i \in 1..Len(vehicles) :
           /\ IdOf(vehicles[i]) \in excluded_ids
           /\ Matches(vehicles[i], FinalFilters, FinalAnoMax, FinalKmMax)

\* the vehicles of vs whose key parses come in ascending (descending) key order
Ascending(vs, K(_)) ==
    \A i, j \in 1..Len(vs) : (i < j /\ K(vs[i]).ok /\ K(vs[j]).ok) => K(vs[i]).val <= K(vs[j]).val

Descending(vs, K(_)) ==
    \A i, j \in 1..Len(vs) : (i < j /\ K(vs[i]).ok /\ K(vs[j]).ok) => K(vs[i]).val >= K(vs[j]).val

CcDistance(v) ==
    IF CcOf(v).ok THEN Some(Abs(CcOf(v).val - TargetCc(ccmax))) ELSE Nothing

ValorDistance(v) ==
    IF PriceOf(v).ok THEN Some(PriceDistance(v)) ELSE Nothing

\* C10: the result is in exactly one order, chosen by the first parameter
\* present in the precedence ccmax > valormax > kmmax > anomax: ascending
\* distance of the displacement to ccmax, else ascending distance of the price
\* to valormax, else ascending odometer, else descending year, and descending
\* price when none is present (each over the vehicles whose key parses).
C10_OneOrderingByPrecedence ==
    Returned
        => IF ccmax # <<>> /\ ParseFloat(ccmax).ok
           THEN Ascending(result.vehicles, CcDistance)
           ELSE IF valormax # <<>> /\ ParseFloat(valormax).ok
           THEN Ascending(result.vehicles, ValorDistance)
           ELSE IF FinalKmMax # <<>>
           THEN Ascending(result.vehicles, KmOf)
           ELSE IF FinalAnoMax # <<>>
           THEN Descending(result.vehicles, YearOf)
           ELSE Descending(result.vehicles, PriceOf)

\* no vehicle of vs whose key does not parse comes before one whose key parses
UnparseableLast(vs, K(_)) ==
    \A i, j \in 1..Len(vs) : i < j => ~(~K(vs[i]).ok /\ K(vs[j]).ok)

\* C11: in every ranking tier a vehicle whose sort key is missing or does not
\* parse (price under valormax or the default order, displacement under
\* ccmax, odometer under kmmax, year under anomax) comes after every vehicle
\* whose key parses.
C11_UnparseableKeysSortLast ==
    Returned
        => IF ccmax # <<>> /\ ParseFloat(ccmax).ok
           THEN UnparseableLast(result.vehicles, CcOf)
           ELSE IF valormax # <<>> /\ ParseFloat(valormax).ok
           THEN UnparseableLast(result.vehicles, PriceOf)
           ELSE IF FinalKmMax # <<>>
           THEN UnparseableLast(result.vehicles, KmOf)
           ELSE IF FinalAnoMax # <<>>
           THEN UnparseableLast(result.vehicles, YearOf)
           ELSE UnparseableLast(result.vehicles, PriceOf)


\* ------------------------------------------------------------------------
\* Properties of the functions called directly
\* ------------------------------------------------------------------------

\* the call of fn has returned
Called(fn) == call.fn = fn /\ ret.done

\* a query word matches the field text for a vehicle kind: it is a substring of the
\* normalised text or, with three characters or more, similar enough to it
WordHits(word, field_content, vehicle_type) ==
    LET nw == normalize_text(word)
        nc == normalize_text(field_content)
    IN  \/ IsSubstr(nw, nc)
        \/ Len(nw) >= 3 /\ FuzzyScoreAtLeast(nc, nw, IF IsMoto(vehicle_type) THEN 98 ELSE 90)

\* exactly one of the two words of the call's query matches the field text
ExactlyOneWordHits ==
    /\ Len(call.query_words) = 2
    /\ Cardinality({i \in 1..2 :
           WordHits(call.query_words[i], call.field_content, call.vehicle_type)}) = 1

\* both words of the call's query have two characters or more once normalised
BothWordsCount ==
    \A i \in 1..Len(call.query_words) : Len(normalize_text(call.query_words[i])) >= 2

\* C12 (amended): for a two-word query whose words both have at least two characters
\* after normalisation and of which exactly one matches the field text, model_match
\* returns no-match for kind 'moto' and match for any other kind
C12_MotoStrictness ==
    (Called("model_match") /\ BothWordsCount /\ ExactlyOneWordHits)
        => (ret.value <=> ~IsMoto(call.vehicle_type))

\* a motorcycle is refused on a two-word query of which one word matches
C12_Witness ==
    /\ Called("model_match") /\ BothWordsCount /\ ExactlyOneWordHits
    /\ IsMoto(call.vehicle_type)
    /\ ~ret.value

\* C12 as stated: for every two-word query of which exactly one word matches the field
\* text, model_match returns no-match for kind 'moto' and match for any other kind
C12_AnyTwoWords ==
    (Called("model_match") /\ ExactlyOneWordHits)
        => (ret.value <=> ~IsMoto(call.vehicle_type))


\* the vehicles of a list
Members(vs) == {vs[i] : i \in 1..Len(vs)}

\* the filters dict with its entries in another order
Reordered(fs) ==
    {[i \in 1..Len(fs) |-> fs[p[i]]] : p \in Permutations(1..Len(fs))}

\* C13: adding a filter to the filters of apply_filters can only shrink its result, and
\* the result does not depend on the order of the filters
C13_FiltersOnlyShrink ==
    Called("apply_filters") =>
        /\ \A f \in FilterChoices :
               ~HasKey(call.filters, f.k)
                   => Members(apply_filters(call.vehicles, Append(call.filters, f)))
                          \subseteq Members(ret.value)
        /\ \A gs \in Reordered(call.filters) : apply_filters(call.vehicles, gs) = ret.value

\* two filters keep some vehicles and refuse others, and one more filter refuses some
\* of the vehicles kept
C13_Witness ==
    /\ Called("apply_filters")
    /\ Len(call.filters) = 2
    /\ ret.value # <<>>
    /\ Len(ret.value) < Len(call.vehicles)
    /\ \E f \in FilterChoices :
           /\ ~HasKey(call.filters, f.k)
           /\ apply_filters(call.vehicles, Append(call.filters, f)) # <<>>
           /\ Len(apply_filters(call.vehicles, Append(call.filters, f))) < Len(ret.value)

\* the filters dict with the value of its i-th entry replaced
WithValue(fs, i, value) == [fs EXCEPT ![i] = [k |-> fs[i].k, v |-> value]]

\* C14: a filter value with comma-separated alternatives keeps the vehicles kept by any
\* one of the alternatives, for the text-matched and for the exact-identity filters
C14_CsvValueIsUnion ==
    Called("apply_filters") =>
        \A i \in 1..Len(call.filters) :
            Len(CsvPieces(call.filters[i].v)) >= 2
                => Members(ret.value)
                       = UNION {Members(apply_filters(call.vehicles,
                                                      WithValue(call.filters, i, CsvPieces(call.filters[i].v)[j]))) :
                                    j \in 1..Len(CsvPieces(call.filters[i].v))}

\* both alternatives of an exact-identity filter keep vehicles, and not the same ones
C14_Witness ==
    /\ Called("apply_filters")
    /\ \E i \in 1..Len(call.filters) :
           /\ call.filters[i].k \in exact_fields
           /\ Len(CsvPieces(call.filters[i].v)) = 2
           /\ \A j \in 1..2 :
                  LET one == apply_filters(call.vehicles,
                                           WithValue(call.filters, i, CsvPieces(call.filters[i].v)[j]))
                  IN  one # <<>> /\ Len(one) < Len(ret.value)

\* the call of one of the four converters has returned
CalledConverter ==
    call.fn \in {"convert_price", "convert_year", "convert_km", "convert_cc"} /\ ret.done

\* C15: the converters return null only for an absent or unparseable value; zero, the
\* number 0 as well as the text "0", converts to 0 and not to null
C15_ZeroConvertsToZero ==
    (CalledConverter /\ call.x \in {JNum(0), JStr(<<"0">>)}) => ret.value = Some(0)

\* C16: normalize_text and normalizar_texto are idempotent, and both return the empty
\* string for an empty or null input
C16_NormalisationIdempotent ==
    /\ Called("normalize_text") =>
           /\ normalize_text(ret.value) = ret.value
           /\ call.text \in {JNull, JStr(<<>>)} => ret.value = <<>>
    /\ Called("normalizar_texto") =>
           /\ normalizar_texto(ret.value) = ret.value
           /\ call.text \in {JNull, JStr(<<>>)} => ret.value = <<>>

\* a text with an accent, a capital, a hyphen and white space has been normalised to
\* something else, which is not empty
C16_Witness ==
    /\ Called("normalize_text")
    /\ call.text.t = "str"
    /\ \E i \in 1..Len(call.text.s) : call.text.s[i] \in {"E'", "B"}
    /\ \E i \in 1..Len(call.text.s) : call.text.s[i] \in {"-", " ", "\t", "endash"}
    /\ ret.value # <<>>
    /\ ret.value # call.text.s


\* ------------------------------------------------------------------------
\* Properties of the fallback loop
\* ------------------------------------------------------------------------

\* C17: fallback_info is non-empty only if at least one relaxation was recorded, and
\* its removed_filters list is then the removed_filters of the same SearchResult
C17_FallbackInfoMirrorsRemoved ==
    (Returned /\ result.fallback_info.present) =>
        /\ result.removed_filters # <<>>
        /\ result.fallback_info.removed_filters = result.removed_filters

\* a search that succeeded after two relaxations or more
C17_Witness ==
    /\ Returned
    /\ result.fallback_info.present
    /\ Len(result.removed_filters) >= 2
    /\ result.vehicles # <<>>

\* a step of search_with_fallback keeps the inventory and the filters mapping
InputsKept ==
    (pc = "search" \/ pc = "loop") => (vehicles' = vehicles /\ filters' = filters)

\* C18: search_with_fallback leaves the inventory, its vehicle records and the caller's
\* filters mapping as they were before the call, on every path
C18_InputsUnchanged == [][InputsKept]_vars

\* the search returned after it relaxed filters of a non-empty filters mapping
C18_Witness ==
    /\ Returned
    /\ vehicles # <<>>
    /\ filters = RequestFilters(query)
    /\ result.removed_filters # <<>>
    /\ current_filters # filters

\* the priority order of the relaxations
PriorityOrder ==
    <<"motor", "portas", "cor", "combustivel", "opcionais", "cambio", "KmMax", "AnoMax",
      "modelo", "marca", "categoria">>

PriorityOf(name) == CHOOSE p \in 1..Len(PriorityOrder) : PriorityOrder[p] = name

\* the filter or ceiling of that name was given to the search
WasActive(name) ==
    CASE name = "KmMax" -> kmmax # <<>>
      [] name = "AnoMax" -> anomax # <<>>
      [] OTHER -> HasKey(filters, name)

\* a ceiling that was tested and skipped is still in force
StillInForce(name) ==
    \/ name = "KmMax" /\ current_kmmax = kmmax
    \/ name = "AnoMax" /\ current_anomax = anomax

\* C19: the entries of removed_filters are in the priority order, each at most once; a
\* filter is relaxed only after every less important filter that was active has been
\* relaxed or, for a ceiling, tested and skipped; no step follows a successful re-test
C19_RelaxedInPriorityOrder ==
    /\ [](/\ \A i \in 1..Len(removed_filters) : removed_filters[i].name \in Members(PriorityOrder)
          /\ \A i, j \in 1..Len(removed_filters) :
                 i < j => PriorityOf(removed_filters[i].name) < PriorityOf(removed_filters[j].name)
          /\ \A i \in 1..Len(removed_filters) :
                 \A p \in 1..(PriorityOf(removed_filters[i].name) - 1) :
                     WasActive(PriorityOrder[p])
                         => \/ \E j \in 1..(i - 1) : removed_filters[j].name = PriorityOrder[p]
                            \/ StillInForce(PriorityOrder[p]))
    /\ [][pc # "done"]_vars

\* the odometer ceiling, then a less important filter, were relaxed before the re-test
\* succeeded
C19_Witness ==
    /\ Returned
    /\ result.vehicles # <<>>
    /\ Len(result.removed_filters) >= 2
    /\ result.removed_filters[1].name = "KmMax"
    /\ PriorityOf(result.removed_filters[2].name) > PriorityOf("KmMax")

\* the vehicles that pass the currently active filters
PassingActiveFilters == Members(apply_filters(vehicles, current_filters))

\* the ceiling given as text stands for a number, whole or not
HasValue(ceiling) == ceiling # <<>> /\ ParseFloat(ceiling).ok

\* the step dropped and recorded the ceiling
DroppedKmMax ==
    /\ current_kmmax' = <<>>
    /\ removed_filters' = Append(removed_filters, Removed("KmMax"))

DroppedAnoMax ==
    /\ current_anomax' = <<>>
    /\ removed_filters' = Append(removed_filters, Removed("AnoMax"))

\* the step was skipped: the next entry, with nothing changed and no re-test
Skipped ==
    /\ pc' = "loop"
    /\ step' = step + 1
    /\ UNCHANGED <<current_filters, current_anomax, current_kmmax, removed_filters, result>>

\* C20: at the KmMax (resp. AnoMax) step with that ceiling active, the ceiling is
\* dropped and recorded if and only if no vehicle passing the currently active filters
\* satisfies it; otherwise the step is skipped, with nothing recorded and no re-test
C20_CeilingDroppedIffUnsatisfied ==
    [][/\ (InLoop /\ filter_to_remove = "KmMax" /\ HasValue(current_kmmax)) =>
              IF \E v \in PassingActiveFilters :
                     KmOf(v).ok /\ KmOf(v).val * Scale <= ParseFloat(current_kmmax).val
              THEN Skipped
              ELSE DroppedKmMax
       /\ (InLoop /\ filter_to_remove = "AnoMax" /\ HasValue(current_anomax)) =>
              IF \E v \in PassingActiveFilters :
                     YearOf(v).ok /\ YearOf(v).val * Scale <= ParseFloat(current_anomax).val
              THEN Skipped
              ELSE DroppedAnoMax]_vars


\* ------------------------------------------------------------------------
\* Properties of the modelo step and of empty filter values
\* ------------------------------------------------------------------------

\* the re-test of the step ran at once: the search returned its vehicles when it found
\* some, and went on to the next entry otherwise
RetestedAtOnce ==
    IF Attempt(current_filters', current_anomax', current_kmmax') # <<>>
    THEN pc' = "done" /\ result'.vehicles # <<>> /\ result'.removed_filters = removed_filters'
    ELSE pc' = "loop" /\ step' = step + 1 /\ result' = result

\* the modelo step, from a state where a modelo filter is active
ModeloStepAsSpecified ==
    (InLoop /\ filter_to_remove = "modelo" /\ HasKey(current_filters, "modelo")) =>
        LET model_value == ValueOf(current_filters, "modelo")
            category == find_category_by_model(model_value)
        IN  IF ~CategoriaActive /\ category # <<>>
            THEN /\ ~HasKey(current_filters', "modelo")
                 /\ HasKey(current_filters', "categoria")
                 /\ ValueOf(current_filters', "categoria") = category
                 /\ Without(current_filters', "categoria")
                        = Without(Without(current_filters, "modelo"), "categoria")
                 /\ removed_filters' = Append(removed_filters, RemovedModelo(model_value, category))
                 /\ RetestedAtOnce
            ELSE /\ current_filters' = Without(current_filters, "modelo")
                 /\ removed_filters' = Append(removed_filters, RemovedModelo(model_value, <<>>))
                 /\ RetestedAtOnce

\* C21: at the modelo step with a modelo filter active, the filter is replaced by the
\* categoria filter of the lookup when no categoria filter is active and the lookup
\* maps the value, the substitution is recorded and the search is re-tested at once;
\* otherwise modelo is dropped and recorded and the caller's categoria filter is kept
C21_ModeloStep == [][ModeloStepAsSpecified]_vars

\* the search returned vehicles right after a modelo -> categoria substitution
C21_Witness ==
    /\ Returned
    /\ result.vehicles # <<>>
    /\ result.removed_filters # <<>>
    /\ result.removed_filters[Len(result.removed_filters)].name = "modelo"
    /\ result.removed_filters[Len(result.removed_filters)].category # <<>>
    /\ HasKey(current_filters, "categoria")


\* the entries of a filters dict whose value is not empty
NonEmptyFilters(fs) == SelectSeq(fs, LAMBDA e : e.v # <<>>)

\* the entry of the loop is a filter that the search holds with an empty value
AtEmptyFilter ==
    /\ InLoop
    /\ HasKey(current_filters, filter_to_remove)
    /\ ValueOf(current_filters, filter_to_remove) = <<>>

\* the step of a filter with an empty value is skipped
EmptyFilterSkipped == AtEmptyFilter => Skipped

Qualifies(word) == Len(normalize_text(word)) >= 2

\* C23: exact_match succeeds exactly when the query word list and the field are not
\* empty and every query word of normalised length 2 or more is a substring of the
\* normalised field text; the query 'CG 160' matches the field 'CG160' and the query
\* 'CG160' matches the field 'CG 160'; an empty query or an empty field never matches
C23_ExactMatch ==
    Called("exact_match") =>
        /\ ret.value <=>
               /\ call.query_words # <<>>
               /\ call.field_content # <<>>
               /\ \A i \in 1..Len(call.query_words) :
                      Qualifies(call.query_words[i])
                          => IsSubstr(normalize_text(call.query_words[i]),
                                      normalize_text(call.field_content))
        /\ (/\ call.query_words = <<<<"c", "g">>, <<"1", "6", "0">>>>
            /\ call.field_content = <<"C", "G", "1", "6", "0">>) => ret.value
        /\ (/\ call.query_words = <<<<"C", "G", "1", "6", "0">>>>
            /\ call.field_content = <<"C", "G", " ", "1", "6", "0">>) => ret.value
        /\ (call.query_words = <<>> \/ call.field_content = <<>>) => ~ret.value

\* the two words of the query 'cg 160' are found in the field 'CG160'
C23_Witness ==
    /\ Called("exact_match")
    /\ call.query_words = <<<<"c", "g">>, <<"1", "6", "0">>>>
    /\ call.field_content = <<"C", "G", "1", "6", "0">>
    /\ ret.value


\* the four tests of the fuzzy tier for a motorcycle on one normalised query word:
\* substring of the field, prefix of one of its tokens and, for a word of three
\* characters or more, substring of a token or a similarity score of 98 or more
PassesMotoTests(normalized_word, normalized_content) ==
    \/ IsSubstr(normalized_word, normalized_content)
    \/ \E j \in 1..Len(SplitWords(normalized_content)) :
           StartsWith(SplitWords(normalized_content)[j], normalized_word)
    \/ /\ Len(normalized_word) >= 3
       /\ \/ \E j \in 1..Len(SplitWords(normalized_content)) :
                 IsSubstr(normalized_word, SplitWords(normalized_content)[j])
          \/ FuzzyScoreAtLeast(normalized_content, normalized_word, 98)

IsSubstitution(entry) == entry.name = "modelo" /\ entry.category # <<>>

\* C26: every vehicle returned by search_with_fallback passes every named filter of the
\* original query that is not recorded in removed_filters, and the categoria derived by
\* a modelo -> categoria substitution unless categoria was relaxed in turn; tipo is
\* never relaxed, so every returned vehicle satisfies the tipo filter
C26_RelaxedResultsAreSound ==
    Returned =>
        \A n \in 1..Len(result.vehicles) :
            /\ \A i \in 1..Len(filters) :
                   (filters[i].v # <<>> /\ ~RemovedHas(result.removed_filters, filters[i].k))
                       => VehiclePasses(result.vehicles[n], filters[i].k, filters[i].v)
            /\ \A j \in 1..Len(result.removed_filters) :
                   (IsSubstitution(result.removed_filters[j])
                        /\ ~RemovedHas(result.removed_filters, "categoria"))
                       => VehiclePasses(result.vehicles[n], "categoria",
                                        result.removed_filters[j].category)
            /\ ~RemovedHas(result.removed_filters, "tipo")
            /\ HasKey(filters, "tipo")
                   => VehiclePasses(result.vehicles[n], "tipo", ValueOf(filters, "tipo"))

\* a relaxed search with a tipo filter returned some vehicles of the inventory, not all
C26_Witness ==
    /\ Returned
    /\ result.removed_filters # <<>>
    /\ result.vehicles # <<>>
    /\ HasKey(filters, "tipo")
    /\ result.total_found < Len(vehicles)
    /\ \E n \in 1..Len(vehicles) : ~VehiclePasses(vehicles[n], "tipo", ValueOf(filters, "tipo"))


\* the query of the search is made of named filters of the priority list only, and the
\* inventory holds a vehicle whose id is not excluded
OnlyRelaxableFilters ==
    /\ pc \in {"loop", "raised", "done"}
    /\ result.kind # "all_stock"
    /\ ~HasKey(filters, "tipo")
    /\ anomax = <<>>
    /\ kmmax = <<>>
    /\ \E n \in 1..Len(vehicles) : IdOf(vehicles[n]) \notin excluded_ids

FiltersAtCeilings ==
    SelectSeq(filters, LAMBDA e : e.k \in {"tipo", "modelo", "marca", "categoria"})

\* v is within the ceiling given as text
MeetsKmMax(v, ceiling) == KmOf(v).ok /\ KmOf(v).val * Scale <= ParseFloat(ceiling).val

MeetsAnoMax(v, ceiling) == YearOf(v).ok /\ YearOf(v).val * Scale <= ParseFloat(ceiling).val

\* both ceilings are active, each one is met by some vehicle that passes the active named
\* filters, and no such vehicle meets both
CeilingsMetSeparately ==
    /\ pc \in {"loop", "raised", "done"}
    /\ result.kind # "all_stock"
    /\ HasValue(kmmax)
    /\ HasValue(anomax)
    /\ \E v \in Members(apply_filters(vehicles, FiltersAtCeilings)) : MeetsKmMax(v, kmmax)
    /\ \E v \in Members(apply_filters(vehicles, FiltersAtCeilings)) : MeetsAnoMax(v, anomax)
    /\ \A v \in Members(apply_filters(vehicles, FiltersAtCeilings)) :
           ~(MeetsKmMax(v, kmmax) /\ MeetsAnoMax(v, anomax))

\* C28: when both kmmax and anomax are active and each one is met by some vehicle passing
\* the active named filters, but no single vehicle meets both, the fallback relaxes
\* neither ceiling; the search returns with both ceilings in force and neither recorded
\* in removed_filters, and it ends empty when dropping the named filters does not help
C28_NeitherCeilingRelaxed ==
    CeilingsMetSeparately =>
        /\ pc # "raised"
        /\ ~RemovedHas(removed_filters, "KmMax")
        /\ ~RemovedHas(removed_filters, "AnoMax")
        /\ Returned =>
               /\ \A n \in 1..Len(result.vehicles) :
                      /\ MeetsKmMax(result.vehicles[n], kmmax)
                      /\ MeetsAnoMax(result.vehicles[n], anomax)
               /\ (\A n \in 1..Len(vehicles) :
                       ~(MeetsKmMax(vehicles[n], kmmax) /\ MeetsAnoMax(vehicles[n], anomax)))
                      => result.vehicles = <<>>


\* ------------------------------------------------------------------------
\* Properties of the query words that do not count
\* ------------------------------------------------------------------------

\* the word list is not empty and none of its words counts
NoWordCounts(query_words) ==
    /\ query_words # <<>>
    /\ \A i \in 1..Len(query_words) : ~Qualifies(query_words[i])

\* the filters dict holds a modelo filter whose only value has no word that counts
ModeloOfShortWords(fs) ==
    /\ HasKey(fs, "modelo")
    /\ Len(split_multi_value(ValueOf(fs, "modelo"))) = 1
    /\ NoWordCounts(SplitWords(split_multi_value(ValueOf(fs, "modelo"))[1]))

\* one of the three fields tried by the modelo filter is not empty
HasModelText(v) ==
    \E field \in {"modelo", "titulo", "versao"} : PyStr(GetOrEmpty(v, field)) # <<>>

\* C30: when the query word list is not empty but every word normalises to fewer than
\* two characters, model_match matches any field that is not empty; so a modelo filter
\* such as 'x' keeps every vehicle whose modelo, titulo or versao is not empty
C30_ShortWordsMatchAnything ==
    /\ (Called("model_match") /\ NoWordCounts(call.query_words) /\ call.field_content # <<>>)
           => ret.value
    /\ (Called("apply_filters") /\ ModeloOfShortWords(call.filters))
           => \A n \in 1..Len(call.vehicles) :
                  HasModelText(call.vehicles[n])
                      => \/ call.vehicles[n] \in Members(ret.value)
                         \/ call.vehicles[n] \notin
                                Members(apply_filters(call.vehicles,
                                            SelectSeq(call.filters, LAMBDA e : e.k # "modelo")))

\* the modelo filter 'x' alone keeps a whole inventory, none of whose models holds an x
C30_Witness ==
    /\ Called("apply_filters")
    /\ call.filters = <<[k |-> "modelo", v |-> <<"x">>]>>
    /\ call.vehicles # <<>>
    /\ \E n \in 1..Len(call.vehicles) :
           /\ ~IsSubstr(<<"x">>, normalize_text(PyStr(GetOrEmpty(call.vehicles[n], "modelo"))))
           /\ call.vehicles[n] \in Members(ret.value)
    /\ Len(ret.value) = Len(call.vehicles)


\* ------------------------------------------------------------------------
\* Properties of the server
\* ------------------------------------------------------------------------

\* the vehicle as the response of the query shows it: the first photo only when
\* simples=1, no opcionais unless the query filters on them
Shaped(req, vehicle) ==
    IF HasKey(RequestFilters(req.query), "opcionais")
    THEN (IF req.simples = <<"1">> THEN FirstPhoto(vehicle) ELSE vehicle)
    ELSE WithoutOpcionais(IF req.simples = <<"1">> THEN FirstPhoto(vehicle) ELSE vehicle)

\* the response that the request gets when it runs alone on the inventory it has read
ResponseAlone(req, found) ==
    ResponseData(found, [i \in 1..Len(found.vehicles) |-> Shaped(req, found.vehicles[i])])

\* request r has answered with vehicles
Answered(r) == requests[r].pc = "responded" /\ requests[r].response.status = 200

\* C25: the shaping of the response (one photo with simples=1, no opcionais) is done on
\* the request's own copy of the inventory; whatever the interleaving of two concurrent
\* requests, the vehicles returned to one are those it gets when the other does not run
C25_RequestsDoNotInterfere ==
    \A r \in RequestIds :
        Answered(r) =>
            requests[r].response
                = ResponseAlone(requests[r], Found(requests[r].query, requests[r].loaded))

\* both requests have answered from the same inventory, one with simples=1 and one
\* without: the same vehicle has one photo in the first response and two in the other
C25_Witness ==
    /\ Answered("r1")
    /\ Answered("r2")
    /\ requests["r1"].loaded = requests["r2"].loaded
    /\ requests["r1"].simples = <<"1">>
    /\ requests["r2"].simples = <<>>
    /\ \E i \in 1..Len(requests["r1"].response.resultados) :
       \E j \in 1..Len(requests["r2"].response.resultados) :
           /\ requests["r1"].response.resultados[i].id = requests["r2"].response.resultados[j].id
           /\ Len(requests["r1"].response.resultados[i].fotos.items) = 1
           /\ Len(requests["r2"].response.resultados[j].fotos.items) = 2

\* every request that has gone past the reading of data.json holds a whole feed
LoadedWhole ==
    \A r \in RequestIds :
        requests[r].pc # "start" =>
            /\ requests[r].pc = "responded" => requests[r].response.status = 200
            /\ requests[r].loaded \in Feeds

\* C29: a request for /api/data that runs while the scheduled refresh (fetch_all on the
\* scheduler thread) rewrites data.json always reads a complete snapshot, never a file
\* that is partly written
C29_ReadsWholeSnapshot == LoadedWhole

====
